---- MODULE Spec2Model ----
(***************************************************************************)
(* A model of the hangar server (remote/server.py), of the writer lock     *)
(* behind Repository.checkout (repository.py), of the record codec          *)
(* (records/parsing.py, constants.py) and of two client repositories that   *)
(* push to and fetch from the server.                                       *)
(*                                                                         *)
(* Byte strings are sequences of small naturals.  A store is a partial      *)
(* function: a key is present when it is in the DOMAIN of the store.         *)
(***************************************************************************)
EXTENDS Integers, Sequences, FiniteSets, TLC

VARIABLES
    branchenv,    \* server branch store:  branch name -> head commit digest
    refenv,       \* server ref store:     commit parent / ref / spec records
    hashenv,      \* server hash store:    data digest -> [schema, data]
    schemaenv,    \* server hash store, schema keys: schema digest -> blob
    labelenv,     \* server label store:   metadata digest -> value
    remoteData,   \* digests whose payload sits in the remote_data (staged) dir
    last,         \* the RPC that ran last: [op, code, raised, stream, req]
    cWant,        \* fetching client: the digests it set out to fetch
    cGot,         \* fetching client: digest -> tensor bytes received so far
    cPc,          \* fetching client: "idle", "fetching", "done", "failed"
    wlock,        \* repository branch store, value under the writer lock key
    co,           \* caller -> its write checkout: [st, uuid, n]
    repo,         \* client repository -> its stores
    sync,         \* client repository -> its push or fetch in progress
    readers,      \* server: reader transactions open on the hash store
    calls,        \* server: worker thread -> the handler it is running
    codec,        \* records.parsing: the record last encoded and decoded
    sampler,      \* records.parsing: NAME_CYCLER, the clock, the names generated
    local         \* a local repository: its branch store and the last outcome

vars == <<branchenv, refenv, hashenv, schemaenv, labelenv, remoteData, last,
          cWant, cGot, cPc, wlock, co, repo, sync, readers,
          calls, codec, sampler, local>>
serverVars == <<branchenv, refenv, hashenv, remoteData, last>>
clientVars == <<cWant, cGot, cPc>>
lockVars == <<wlock, co>>
metaVars == <<schemaenv, labelenv>>
peerVars == <<repo, sync>>
procVars == <<readers, calls, codec, sampler, local>>
butReaders == <<calls, codec, sampler, local>>
butCalls == <<readers, codec, sampler, local>>
butCodec == <<readers, calls, sampler, local>>
butSampler == <<readers, calls, codec, local>>
butLocal == <<readers, calls, codec, sampler>>
restVars == <<peerVars, procVars>>

----------------------------------------------------------------------------
(* Bounds of the model                                                      *)

ChunkSize == 1        \* payload bytes carried by one message of a stream
MaxBatch == 2         \* tensors in one PushData batch
MaxWant == 3          \* digests a fetching client asks for
MaxCheckouts == 2     \* write checkouts one caller attempts
FetchMaxNBytes == 3   \* config 'server.grpc.fetch_max_nbytes'
MaxReaders == 2       \* reader transactions that cancelled calls leave open
MaxName == 2          \* characters of a name given to the key codec
MaxCount == 12        \* largest record count given to the key codec
MaxPairs == 3         \* records in the list of a commit given to the codec
MaxBranches == 2      \* branches created in the local repository
MaxKey == 6           \* characters of a key read from the staging store
MaxCalls == 5         \* calls of generate_sample_name by one process
CycleLen == 3         \* entries of cycle_list (9,999 in the module)
SecWidth == 1         \* width the seconds are padded to (6 in the module)
SubsecWidth == 2      \* width the fraction is padded to (9 in the module)
SleepTicks == 1       \* ticks that pass in sleep(0.001), at least

----------------------------------------------------------------------------
(* Reply codes                                                              *)

OK == 0
NOT_FOUND == 5
ALREADY_EXISTS == 6
RESOURCE_EXHAUSTED == 8
DATA_LOSS == 15
\* the request of a call that the reply of another kind of call is about
NoRequest == [batch |-> <<>>, nsent |-> 0, uncomp_nbytes |-> 0, retry |-> FALSE]

Reply(op, code) ==
    [op |-> op, code |-> code, raised |-> FALSE, stream |-> <<>>, req |-> NoRequest]

\* An exception that leaves the handler: the RPC ends without a reply envelope
\* (grpc reports status UNKNOWN, 2, to the caller).
Raise(op) ==
    [op |-> op, code |-> 2, raised |-> TRUE, stream |-> <<>>, req |-> NoRequest]

----------------------------------------------------------------------------
(* The universe of names and payloads                                       *)

BranchNames == {"master", "dev"}
Commits == {"c1", "c2"}
SchemaDigests == {"s1", "s2"}
TensorBytes == {0, 1, 2}
TensorDigests == {"d0", "d1", "d2"}

\* hashlib.blake2b(tensor.tobytes(), digest_size=20).hexdigest()
blake2b(b) == CASE b = 0 -> "d0" [] b = 1 -> "d1" [] OTHER -> "d2"

\* The three values a client sends for a commit: parent, compressed ref bytes
\* and spec.
CommitRecords ==
    [parent : {"", "c1"}, ref : {<<1, 0>>, <<2, 3>>}, spec : {"sp1", "sp2"}]

\* The commit digest: the content hash of (parents || compressed-refs || spec).
CommitHash(parentVal, refBytes, specVal) ==
    CASE parentVal = "" /\ refBytes = <<1, 0>> /\ specVal = "sp1" -> "c1"
      [] parentVal = "c1" /\ refBytes = <<2, 3>> /\ specVal = "sp2" -> "c2"
      [] OTHER -> "cX"

----------------------------------------------------------------------------
(* Streams: chunking at the sender, reassembly at the receiver              *)

\* chunks.chunk_bytes: successive slices of at most ChunkSize bytes
chunk_bytes(bytes) ==
    LET n == IF bytes = <<>> THEN 1 ELSE (Len(bytes) + ChunkSize - 1) \div ChunkSize
    IN  [i \in 1..n |->
            SubSeq(bytes, (i - 1) * ChunkSize + 1,
                   IF i * ChunkSize < Len(bytes) THEN i * ChunkSize ELSE Len(bytes))]

RECURSIVE Concat(_)
Concat(slices) ==
    IF slices = <<>> THEN <<>> ELSE Head(slices) \o Concat(Tail(slices))

\* bytearray(n): n zero bytes
bytearray(n) == [i \in 1..n |-> 0]

\* buf, offset = bytearray(total), 0
\* for each message: buf[offset: offset + size] = slice; offset += size
\* (a slice assignment that runs past the end of a bytearray extends it)
Reassemble(total, slices) ==
    LET got == Concat(slices)
    IN  IF Len(got) >= total THEN got
        ELSE got \o bytearray(total - Len(got))

----------------------------------------------------------------------------
(* Keys of the ref store                                                    *)

commitParentKey(commit) == <<commit>>
commitRefKey(commit) == <<commit, ":", "ref">>
commitSpecKey(commit) == <<commit, ":", "spec">>

Put(store, key, val) == (key :> val) @@ store

----------------------------------------------------------------------------
(* heads: branch records                                                    *)

get_branch_names(benv) == DOMAIN benv

\* raises ValueError when the branch is absent: callers test the DOMAIN first
get_branch_head_commit(benv, branch_name) == benv[branch_name]

create_branch(benv, branch_name, base_commit) == Put(benv, branch_name, base_commit)

set_branch_head_commit(benv, branch_name, commit) == Put(benv, branch_name, commit)

----------------------------------------------------------------------------
(* PushBranchRecord on the threads of the server's pool                     *)

\* grpc_thread_pool: handlers of independent calls run on its threads
Workers == {"t1", "t2"}

NoCall == [pc |-> "idle", name |-> "", commit |-> "", exists |-> FALSE,
           current_head |-> ""]

\* PushBranchRecord up to its write: what the handler has read of the
\* branch store (get_branch_names, and get_branch_head_commit of a branch
\* that exists).  No statement of the handler takes the writer lock.
PushBranchRecordRead(t, branch_name, commit) ==
    /\ calls[t].pc = "idle"
    /\ calls' = [calls EXCEPT ![t] =
          [pc |-> "read", name |-> branch_name, commit |-> commit,
           exists |-> branch_name \in get_branch_names(branchenv),
           current_head |-> IF branch_name \in get_branch_names(branchenv)
                            THEN get_branch_head_commit(branchenv, branch_name)
                            ELSE ""]]
    /\ UNCHANGED <<branchenv, refenv, hashenv, remoteData, last>>
    /\ UNCHANGED <<clientVars, lockVars, metaVars>>

\* PushBranchRecord from its write on: the branch it took for absent is
\* created (heads.create_branch fails on a name that exists by now), the
\* head it read is kept or replaced, and the reply is returned.
PushBranchRecordWrite(t) ==
    /\ calls[t].pc = "read"
    /\ LET c == calls[t]
           req == [name |-> c.name, commit |-> c.commit, thread |-> t]
       IN  IF ~c.exists
           THEN IF c.name \in get_branch_names(branchenv)
                THEN /\ branchenv' = branchenv
                     /\ last' = [Raise("PushBranchRecord") EXCEPT !.req = req]
                ELSE /\ branchenv' = create_branch(branchenv, c.name, c.commit)
                     /\ last' = [Reply("PushBranchRecord", OK) EXCEPT !.req = req]
           ELSE IF c.current_head = c.commit
           THEN /\ branchenv' = branchenv
                /\ last' = [Reply("PushBranchRecord", ALREADY_EXISTS) EXCEPT !.req = req]
           ELSE /\ branchenv' = set_branch_head_commit(branchenv, c.name, c.commit)
                /\ last' = [Reply("PushBranchRecord", OK) EXCEPT !.req = req]
    /\ calls' = [calls EXCEPT ![t] = NoCall]
    /\ UNCHANGED <<refenv, hashenv, remoteData>>
    /\ UNCHANGED <<clientVars, lockVars, metaVars>>

----------------------------------------------------------------------------
(* ContentWriter.commit                                                     *)

\* variant: a commit that is recorded is written again with what was received
CW_commitOverwrites(renv, commit, parentVal, specVal, refBytes) ==
    IF commitRefKey(commit) \notin DOMAIN renv
          /\ CommitHash(parentVal, refBytes, specVal) # commit
    THEN [digest |-> "", raised |-> TRUE, refenv |-> renv]
    ELSE [digest |-> IF commitRefKey(commit) \in DOMAIN renv THEN "" ELSE commit,
          raised |-> FALSE,
          refenv |-> Put(Put(Put(renv, commitParentKey(commit), parentVal),
                             commitRefKey(commit), refBytes),
                         commitSpecKey(commit), specVal)]

\* variant: a commit that is not recorded is written without validation
CW_commitUnvalidated(renv, commit, parentVal, specVal, refBytes) ==
    IF commitRefKey(commit) \in DOMAIN renv
    THEN [digest |-> "", raised |-> FALSE, refenv |-> renv]
    ELSE [digest |-> commit, raised |-> FALSE,
          refenv |-> Put(Put(Put(renv, commitParentKey(commit), parentVal),
                             commitRefKey(commit), refBytes),
                         commitSpecKey(commit), specVal)]

\* Writes the three records of a commit unless the digest is already
\* recorded; the digest is validated against the received content.
\* Returns the digest written, or "" (falsey) when nothing was written
\* because the commit exists, or raises.
CW_commit(renv, commit, parentVal, specVal, refBytes) ==
    IF commitRefKey(commit) \in DOMAIN renv
    THEN [digest |-> "", raised |-> FALSE, refenv |-> renv]
    ELSE IF CommitHash(parentVal, refBytes, specVal) # commit
    THEN [digest |-> "", raised |-> TRUE, refenv |-> renv]
    ELSE [digest |-> commit, raised |-> FALSE,
          refenv |-> Put(Put(Put(renv, commitParentKey(commit), parentVal),
                             commitRefKey(commit), refBytes),
                         commitSpecKey(commit), specVal)]

\* commiting.move_process_data_to_store(repo_path, remote_operation=True)
move_process_data_to_store(staged) == {}

----------------------------------------------------------------------------
(* Branch record RPCs                                                       *)

\* variant: an unknown branch is answered OK with an empty record
FetchBranchRecordAlwaysOK(branch_name) ==
    /\ last' = IF branch_name \in get_branch_names(branchenv)
               THEN [op |-> "FetchBranchRecord", code |-> OK, raised |-> FALSE,
                     stream |-> <<get_branch_head_commit(branchenv, branch_name)>>,
                     req |-> NoRequest]
               ELSE Reply("FetchBranchRecord", OK)
    /\ UNCHANGED <<branchenv, refenv, hashenv, remoteData>>
    /\ UNCHANGED <<clientVars, lockVars, metaVars>>

\* variant: an existing branch keeps its head whatever commit is pushed
PushBranchRecordKeepsHead(branch_name, commit) ==
    /\ IF branch_name \notin get_branch_names(branchenv)
       THEN /\ branchenv' = create_branch(branchenv, branch_name, commit)
            /\ last' = Reply("PushBranchRecord", OK)
       ELSE IF get_branch_head_commit(branchenv, branch_name) = commit
       THEN /\ branchenv' = branchenv
            /\ last' = Reply("PushBranchRecord", ALREADY_EXISTS)
       ELSE /\ branchenv' = branchenv
            /\ last' = Reply("PushBranchRecord", OK)
    /\ UNCHANGED <<refenv, hashenv, remoteData>>
    /\ UNCHANGED <<clientVars, lockVars, metaVars>>

\* variant: a branch that is asked for and does not exist is created
FetchBranchRecordCreates(branch_name) ==
    /\ last' = IF branch_name \in get_branch_names(branchenv)
               THEN [op |-> "FetchBranchRecord", code |-> OK, raised |-> FALSE,
                     stream |-> <<get_branch_head_commit(branchenv, branch_name)>>,
                     req |-> NoRequest]
               ELSE Reply("FetchBranchRecord", NOT_FOUND)
    /\ branchenv' = IF branch_name \in get_branch_names(branchenv) THEN branchenv
                    ELSE create_branch(branchenv, branch_name, "")
    /\ UNCHANGED <<refenv, hashenv, remoteData>>
    /\ UNCHANGED <<clientVars, lockVars, metaVars>>

FetchBranchRecord(branch_name) ==
    /\ last' = IF branch_name \in get_branch_names(branchenv)
               THEN [op |-> "FetchBranchRecord", code |-> OK, raised |-> FALSE,
                     stream |-> <<get_branch_head_commit(branchenv, branch_name)>>,
                     req |-> NoRequest]
               ELSE Reply("FetchBranchRecord", NOT_FOUND)
    /\ UNCHANGED <<branchenv, refenv, hashenv, remoteData>>
    /\ UNCHANGED <<clientVars, lockVars, metaVars>>

PushBranchRecord(branch_name, commit) ==
    /\ IF branch_name \notin get_branch_names(branchenv)
       THEN /\ branchenv' = create_branch(branchenv, branch_name, commit)
            /\ last' = Reply("PushBranchRecord", OK)
       ELSE IF get_branch_head_commit(branchenv, branch_name) = commit
       THEN /\ branchenv' = branchenv
            /\ last' = Reply("PushBranchRecord", ALREADY_EXISTS)
       ELSE /\ branchenv' = set_branch_head_commit(branchenv, branch_name, commit)
            /\ last' = Reply("PushBranchRecord", OK)
    /\ UNCHANGED <<refenv, hashenv, remoteData>>
    /\ UNCHANGED <<clientVars, lockVars, metaVars>>

----------------------------------------------------------------------------
(* Commit RPCs                                                              *)

\* The handler once the request stream has ended.  `slices` are the ref
\* slices of the messages that arrived; the first message declared
\* total_byte_size and carried the parent and spec values.
PushCommitMovesAlways(renv, staged, commit, parentVal, specVal, total_byte_size, slices) ==
    LET refBytes == Reassemble(total_byte_size, slices)
        res == CW_commit(renv, commit, parentVal, specVal, refBytes)
    IN  IF res.raised
        THEN [code |-> 2, raised |-> TRUE, refenv |-> res.refenv, remoteData |-> staged]
        ELSE [code |-> IF res.digest = "" THEN ALREADY_EXISTS ELSE OK, raised |-> FALSE,
              refenv |-> res.refenv, remoteData |-> move_process_data_to_store(staged)]

\* variant: the staged payloads are moved before the commit is written
PushCommitMovesFirst(renv, staged, commit, parentVal, specVal, total_byte_size, slices) ==
    LET refBytes == Reassemble(total_byte_size, slices)
        moved == move_process_data_to_store(staged)
        res == CW_commit(renv, commit, parentVal, specVal, refBytes)
    IN  IF res.raised
        THEN [code |-> 2, raised |-> TRUE, refenv |-> res.refenv, remoteData |-> moved]
        ELSE [code |-> IF res.digest = "" THEN ALREADY_EXISTS ELSE OK, raised |-> FALSE,
              refenv |-> res.refenv, remoteData |-> moved]

PushCommitHandler(renv, staged, commit, parentVal, specVal, total_byte_size, slices) ==
    LET refBytes == Reassemble(total_byte_size, slices)
        res == CW_commit(renv, commit, parentVal, specVal, refBytes)
    IN  IF res.raised
        THEN [code |-> 2, raised |-> TRUE, refenv |-> res.refenv, remoteData |-> staged]
        ELSE IF res.digest = ""
        THEN [code |-> ALREADY_EXISTS, raised |-> FALSE,
              refenv |-> res.refenv, remoteData |-> staged]
        ELSE [code |-> OK, raised |-> FALSE,
              refenv |-> res.refenv, remoteData |-> move_process_data_to_store(staged)]

\* What PushCommit answers and leaves behind for the first `nsent` chunks of
\* the commit record `rec`
PushCommitResult(renv, staged, commit, rec, nsent) ==
    PushCommitHandler(renv, staged, commit, rec.parent, rec.spec, Len(rec.ref),
                      SubSeq(chunk_bytes(rec.ref), 1, nsent))

\* The request stream carries the ref bytes in chunks; `nsent` of them arrive
\* before the client closes the stream.
PushCommit(commit, rec, nsent) ==
    /\ nsent \in 1..Len(chunk_bytes(rec.ref))
    /\ LET res == PushCommitResult(refenv, remoteData, commit, rec, nsent)
       IN  /\ refenv' = res.refenv
           /\ remoteData' = res.remoteData
           /\ last' = IF res.raised THEN Raise("PushCommit")
                      ELSE Reply("PushCommit", res.code)
    /\ UNCHANGED <<branchenv, hashenv>>
    /\ UNCHANGED <<clientVars, lockVars, metaVars>>

----------------------------------------------------------------------------
(* Payload codecs: msgpack packing and blosc compression                    *)

DigestIdx(d) == CASE d = "d0" -> 0 [] d = "d1" -> 1 [] OTHER -> 2
IdxDigest(i) == CASE i = 0 -> "d0" [] i = 1 -> "d1" [] OTHER -> "d2"
SchemaIdx(s) == IF s = "s1" THEN 0 ELSE 1
IdxSchema(i) == IF i = 0 THEN "s1" ELSE "s2"

\* A tensor record of a PushData batch: the declared digest, the schema digest
\* and the raw bytes.  What msgpack packs of it: a header byte, never 0, that
\* stands for (digest, schema_hash, shape, dtype), then the tensor bytes.
TensorRecords == [digest : TensorDigests, schema : SchemaDigests, data : TensorBytes]

PackRecord(t) == <<1 + DigestIdx(t.digest) + 3 * SchemaIdx(t.schema), t.data>>

RECURSIVE PackBatch(_)
PackBatch(batch) ==
    IF batch = <<>> THEN <<>> ELSE PackRecord(Head(batch)) \o PackBatch(Tail(batch))

\* msgpack.Unpacker over the received bytes: the objects it yields in order.
\* A zero byte is the integer 0, not a tuple; an object cut short at the end
\* of the buffer ends the iteration.
NotATuple == [tuple |-> FALSE, digest |-> "", schema |-> "", data |-> 0]

RECURSIVE UnpackFrom(_, _)
\* the objects from position i of the buffer on
UnpackFrom(bytes, i) ==
    IF i > Len(bytes) THEN <<>>
    ELSE IF bytes[i] = 0 THEN <<NotATuple>> \o UnpackFrom(bytes, i + 1)
    ELSE IF i = Len(bytes) THEN <<>>
    ELSE <<[tuple |-> TRUE,
            digest |-> IdxDigest((bytes[i] - 1) % 3),
            schema |-> IdxSchema(((bytes[i] - 1) \div 3) % 2),
            data |-> bytes[i + 1]]>> \o UnpackFrom(bytes, i + 2)

Unpacker(bytes) == UnpackFrom(bytes, 1)

\* blosc.compress: a header that records the uncompressed size, then the
\* bytes (small buffers are stored, not compressed).
compress(bytes) == <<Len(bytes)>> \o bytes

\* blosc.decompress: fails on a buffer whose header does not fit it.
DecompressFails(buf) == buf = <<>> \/ Head(buf) # Len(buf) - 1
decompress(buf) == Tail(buf)

----------------------------------------------------------------------------
(* ContentWriter.data                                                       *)

RECURSIVE CW_data(_, _, _, _)
\* Writes every received tensor under `schema_hash`; a digest already in the
\* hash store is left as it is.  Returns the new hash store and staged set.
CW_data(henv, staged, schema_hash, recieved_data) ==
    IF recieved_data = <<>> THEN [hashenv |-> henv, remoteData |-> staged]
    ELSE LET t == Head(recieved_data)
         IN  IF t.digest \in DOMAIN henv
             THEN CW_data(henv, staged, schema_hash, Tail(recieved_data))
             ELSE CW_data(Put(henv, t.digest, [schema |-> schema_hash, data |-> t.data]),
                          staged \cup {t.digest}, schema_hash, Tail(recieved_data))

----------------------------------------------------------------------------
(* PushData                                                                 *)

\* variant: only the first tensor of the batch is verified
VerifyFirstOnly(objs) ==
    IF objs = <<>> THEN "ok"
    ELSE IF ~Head(objs).tuple THEN "raise"
    ELSE IF blake2b(Head(objs).data) # Head(objs).digest THEN "loss"
    ELSE "ok"

RECURSIVE VerifyBatch(_)
\* The loop over the unpacker: "ok" when every tensor hashes to its declared
\* digest, "loss" at the first that does not, "raise" at an object that is no
\* 5-tuple.
VerifyBatch(objs) ==
    IF objs = <<>> THEN "ok"
    ELSE IF ~Head(objs).tuple THEN "raise"
    ELSE IF blake2b(Head(objs).data) # Head(objs).digest THEN "loss"
    ELSE VerifyBatch(Tail(objs))

\* variant: a verified batch is acknowledged and not written
PushDataDropsBatch(henv, staged, dBytes, uncomp_nbytes) ==
    LET unchanged(code) ==
            [code |-> code, raised |-> FALSE, hashenv |-> henv, remoteData |-> staged]
        raise == [code |-> 2, raised |-> TRUE, hashenv |-> henv, remoteData |-> staged]
    IN  IF DecompressFails(dBytes) THEN raise
        ELSE IF uncomp_nbytes # Len(decompress(dBytes)) THEN unchanged(DATA_LOSS)
        ELSE LET objs == Unpacker(decompress(dBytes))
                 verdict == VerifyBatch(objs)
             IN  IF verdict = "raise" \/ objs = <<>> THEN raise
                 ELSE IF verdict = "loss" THEN unchanged(DATA_LOSS)
                 ELSE unchanged(OK)

\* The handler once the request stream has ended, on the reassembled buffer.
PushDataHandler(henv, staged, dBytes, uncomp_nbytes) ==
    LET unchanged(code) ==
            [code |-> code, raised |-> FALSE, hashenv |-> henv, remoteData |-> staged]
        raise == [code |-> 2, raised |-> TRUE, hashenv |-> henv, remoteData |-> staged]
    IN  IF DecompressFails(dBytes) THEN raise
        ELSE IF uncomp_nbytes # Len(decompress(dBytes)) THEN unchanged(DATA_LOSS)
        ELSE LET objs == Unpacker(decompress(dBytes))
                 verdict == VerifyBatch(objs)
             IN  IF verdict = "raise" \/ objs = <<>> THEN raise
                 ELSE IF verdict = "loss" THEN unchanged(DATA_LOSS)
                 ELSE [code |-> OK, raised |-> FALSE] @@
                      CW_data(henv, staged, objs[Len(objs)].schema, objs)

\* The compressed batch as the client chunks it
PushDataChunks(batch) == chunk_bytes(compress(PackBatch(batch)))

NChunks(b) == Len(PushDataChunks(b))

\* What PushData answers and leaves behind for the first `nsent` chunks of
\* the batch, declared `uncomp_nbytes` long before compression
PushDataResult(henv, staged, batch, nsent, uncomp_nbytes) ==
    LET comp_nbytes == Len(compress(PackBatch(batch)))
        dBytes == Reassemble(comp_nbytes, SubSeq(PushDataChunks(batch), 1, nsent))
    IN  PushDataHandler(henv, staged, dBytes, uncomp_nbytes)

\* some tensor of the batch is declared under a digest its bytes do not have
HasMismatch(batch) ==
    \E i \in 1..Len(batch) : blake2b(batch[i].data) # batch[i].digest

\* the tensors of the batch, each declared under the digest of its bytes
Corrected(batch) ==
    [i \in 1..Len(batch) |-> [batch[i] EXCEPT !.digest = blake2b(batch[i].data)]]

\* the whole stream of the batch arrives, declared with its true size
Complete(req) ==
    /\ req.nsent = NChunks(req.batch)
    /\ req.uncomp_nbytes = Len(PackBatch(req.batch))

\* `nsent` chunks of the batch arrive; the first message declares
\* comp_nbytes (the full compressed size) and uncomp_nbytes.  The request is
\* remembered with the reply; `retry` records that the call before it was the
\* same tensors, rejected for a digest that did not match.
PushData(batch, nsent, uncomp_nbytes) ==
    /\ nsent \in 1..NChunks(batch)
    /\ LET res == PushDataResult(hashenv, remoteData, batch, nsent, uncomp_nbytes)
           req == [batch |-> batch, nsent |-> nsent, uncomp_nbytes |-> uncomp_nbytes,
                   retry |-> /\ last.op = "PushData" /\ last.code = DATA_LOSS
                             /\ ~last.raised
                             /\ Complete(last.req) /\ HasMismatch(last.req.batch)
                             /\ batch = Corrected(last.req.batch)]
       IN  /\ hashenv' = res.hashenv
           /\ remoteData' = res.remoteData
           /\ last' = [op |-> "PushData", code |-> res.code, raised |-> res.raised,
                       stream |-> <<>>, req |-> req]
    /\ UNCHANGED <<branchenv, refenv>>
    /\ UNCHANGED <<clientVars, lockVars, metaVars>>

----------------------------------------------------------------------------
(* FetchData                                                                *)

\* The request: the packed digests the client asks for, one header byte each
PackDigests(digests) == [i \in 1..Len(digests) |-> 1 + DigestIdx(digests[i])]

\* msgpack.Unpacker over the request: a byte that packs no digest of the
\* universe yields a value whose key f'h:{value}' is in no hash store.
UnpackDigests(bytes) ==
    [i \in 1..Len(bytes) |->
        IF bytes[i] \in 1..3 THEN IdxDigest(bytes[i] - 1) ELSE "0"]

\* tensor.tobytes(): the tensors are of different sizes, tensor 2 has three
\* bytes and the others one
tobytes(data) == IF data = 2 THEN <<2, 2, 2>> ELSE <<data>>

\* packer.pack((digest, tensor.shape, tensor.dtype.num, tensor.tobytes()))
PackTensor(digest, data) == <<1 + DigestIdx(digest)>> \o tobytes(data)

RECURSIVE UnpackTensorsFrom(_, _)
\* msgpack.Unpacker over the bytes of a reply: the tuples from position i
\* on; the first byte of a tensor tells how many follow
UnpackTensorsFrom(bytes, i) ==
    IF i > Len(bytes) THEN <<>>
    ELSE IF bytes[i] = 0 THEN <<NotATuple>> \o UnpackTensorsFrom(bytes, i + 1)
    ELSE IF i = Len(bytes) THEN <<>>
    ELSE IF i + Len(tobytes(bytes[i + 1])) > Len(bytes) THEN <<>>
    ELSE <<[tuple |-> TRUE,
            digest |-> IdxDigest((bytes[i] - 1) % 3),
            schema |-> "",
            data |-> bytes[i + 1]]>>
             \o UnpackTensorsFrom(bytes, i + 1 + Len(tobytes(bytes[i + 1])))

Frame(code, raw) ==
    [code |-> code, raw_data |-> raw, comp_nbytes |-> 0, uncomp_nbytes |-> 0]

\* chunks.tensorChunkedIterator: the buffer compressed and cut into replies
tensorChunkedIterator(buf, err) ==
    LET comp == compress(buf)
        cs == chunk_bytes(comp)
    IN  [i \in 1..Len(cs) |->
            [code |-> err, raw_data |-> cs[i],
             comp_nbytes |-> Len(comp), uncomp_nbytes |-> Len(buf)]]

RECURSIVE FetchLoopNoBudget(_, _, _)
\* variant: the loop never looks at the budget
FetchLoopNoBudget(henv, digests, buf) ==
    IF digests = <<>>
    THEN IF Len(buf) > 0 THEN tensorChunkedIterator(buf, OK) ELSE <<>>
    ELSE IF Head(digests) \notin DOMAIN henv
    THEN <<Frame(NOT_FOUND, <<>>)>>
    ELSE FetchLoopNoBudget(henv, Tail(digests),
                           buf \o PackTensor(Head(digests), henv[Head(digests)].data))

RECURSIVE FetchLoopMarkerFirst(_, _, _)
\* variant: at the budget the marker goes out before the packed tensors
FetchLoopMarkerFirst(henv, digests, buf) ==
    IF digests = <<>>
    THEN IF Len(buf) > 0 THEN tensorChunkedIterator(buf, OK) ELSE <<>>
    ELSE IF Head(digests) \notin DOMAIN henv
    THEN <<Frame(NOT_FOUND, <<>>)>>
    ELSE LET packed == buf \o PackTensor(Head(digests), henv[Head(digests)].data)
         IN  IF Len(packed) >= FetchMaxNBytes
             THEN <<Frame(RESOURCE_EXHAUSTED, <<>>)>>
                      \o tensorChunkedIterator(packed, OK)
             ELSE FetchLoopMarkerFirst(henv, Tail(digests), packed)

RECURSIVE FetchLoopChecksBeforePack(_, _, _)
\* variant: the budget is checked before the tensor is packed, and a tensor
\* that does not fit is left for the next call
FetchLoopChecksBeforePack(henv, digests, buf) ==
    IF digests = <<>>
    THEN IF Len(buf) > 0 THEN tensorChunkedIterator(buf, OK) ELSE <<>>
    ELSE IF Head(digests) \notin DOMAIN henv
    THEN <<Frame(NOT_FOUND, <<>>)>>
    ELSE LET packed == buf \o PackTensor(Head(digests), henv[Head(digests)].data)
         IN  IF Len(packed) >= FetchMaxNBytes
             THEN (IF Len(buf) > 0 THEN tensorChunkedIterator(buf, OK) ELSE <<>>)
                      \o <<Frame(RESOURCE_EXHAUSTED, <<>>)>>
             ELSE FetchLoopChecksBeforePack(henv, Tail(digests), packed)

RECURSIVE FetchLoopKeepsTotalSize(_, _, _)
\* variant: totalSize is not reset after the NOT_FOUND reply, and the finally
\* block sends what was packed
FetchLoopKeepsTotalSize(henv, digests, buf) ==
    IF digests = <<>>
    THEN IF Len(buf) > 0 THEN tensorChunkedIterator(buf, OK) ELSE <<>>
    ELSE IF Head(digests) \notin DOMAIN henv
    THEN <<Frame(NOT_FOUND, <<>>)>>
             \o (IF Len(buf) > 0 THEN tensorChunkedIterator(buf, OK) ELSE <<>>)
    ELSE LET packed == buf \o PackTensor(Head(digests), henv[Head(digests)].data)
         IN  IF Len(packed) >= FetchMaxNBytes
             THEN tensorChunkedIterator(packed, OK)
                      \o <<Frame(RESOURCE_EXHAUSTED, <<>>)>>
             ELSE FetchLoopKeepsTotalSize(henv, Tail(digests), packed)

RECURSIVE FetchLoop(_, _, _)
\* for digest in unpacker: ... with buf the tensors packed so far (totalSize
\* is its length).  The replies the loop and the finally block yield.
FetchLoop(henv, digests, buf) ==
    IF digests = <<>>
    THEN IF Len(buf) > 0 THEN tensorChunkedIterator(buf, OK) ELSE <<>>
    ELSE IF Head(digests) \notin DOMAIN henv
    THEN <<Frame(NOT_FOUND, <<>>)>>
    ELSE LET packed == buf \o PackTensor(Head(digests), henv[Head(digests)].data)
         IN  IF Len(packed) >= FetchMaxNBytes
             THEN tensorChunkedIterator(packed, OK)
                      \o <<Frame(RESOURCE_EXHAUSTED, <<>>)>>
             ELSE FetchLoop(henv, Tail(digests), packed)

\* The handler once the request stream has ended: the reply stream
FetchDataHandler(henv, dBytes, uncomp_nbytes) ==
    IF DecompressFails(dBytes) THEN [raised |-> TRUE, stream |-> <<>>]
    ELSE IF uncomp_nbytes # Len(decompress(dBytes))
    THEN [raised |-> FALSE, stream |-> <<Frame(DATA_LOSS, <<>>)>>]
    ELSE [raised |-> FALSE,
          stream |-> FetchLoop(henv, UnpackDigests(decompress(dBytes)), <<>>)]

\* what the client sees of the call: the reply stream, and as its code the
\* code of the last reply
FetchDataReply(res) ==
    IF res.raised THEN Raise("FetchData")
    ELSE [op |-> "FetchData",
          code |-> IF res.stream = <<>> THEN OK ELSE res.stream[Len(res.stream)].code,
          raised |-> FALSE,
          stream |-> res.stream,
          req |-> NoRequest]

\* The client packs, compresses and chunks the digests; the whole request
\* stream arrives.
FetchData(digests) ==
    /\ \E comp \in {compress(PackDigests(digests))} :
       \E dBytes \in {Reassemble(Len(comp), chunk_bytes(comp))} :
       \E res \in {FetchDataHandler(hashenv, dBytes, Len(PackDigests(digests)))} :
          last' = FetchDataReply(res)
    /\ UNCHANGED <<branchenv, refenv, hashenv, remoteData>>

\* TxnRegister (context.py): the reader transactions of a store are counted;
\* begin_reader_txn takes a reference, abort_reader_txn gives one back
begin_reader_txn(n) == n + 1
abort_reader_txn(n) == IF n > 0 THEN n - 1 ELSE n

RECURSIVE FetchLoopYields(_, _, _)
\* The yield statements FetchData passes once its reader transaction is
\* open, in order: the reply, the block the yield stands in ("try" for the
\* loop, "finally" for the flush of the finally block) and the value of
\* totalSize while the generator is suspended there.
FetchLoopYields(henv, digests, buf) ==
    LET Yields(replies, block, totalSize) ==
            [i \in 1..Len(replies) |->
                [reply |-> replies[i], block |-> block, totalSize |-> totalSize]]
    IN
    IF digests = <<>>
    THEN IF Len(buf) > 0
         THEN Yields(tensorChunkedIterator(buf, OK), "finally", Len(buf))
         ELSE <<>>
    ELSE IF Head(digests) \notin DOMAIN henv
    THEN Yields(<<Frame(NOT_FOUND, <<>>)>>, "try", Len(buf))
    ELSE LET packed == buf \o PackTensor(Head(digests), henv[Head(digests)].data)
         IN  IF Len(packed) >= FetchMaxNBytes
             THEN Yields(tensorChunkedIterator(packed, OK)
                             \o <<Frame(RESOURCE_EXHAUSTED, <<>>)>>, "try", Len(packed))
             ELSE FetchLoopYields(henv, Tail(digests), packed)

\* The generator is closed while it is suspended at yield y: GeneratorExit
\* is raised there.  At a yield of the try block it is not caught by `except
\* StopIteration`, and the finally block runs with totalSize as it is: when
\* totalSize > 0 the block yields the packed tensors, the generator stays
\* suspended at that yield and the statements after it do not run.  At a
\* yield of the finally block GeneratorExit leaves the block at once.
\* TRUE when abort_reader_txn is reached.
CloseReachesAbort(y) == y.block = "try" /\ y.totalSize = 0

\* FetchData whose client cancels the call after reply k of the stream
FetchDataCancelled(digests, k) ==
    /\ readers < MaxReaders
    /\ \E comp \in {compress(PackDigests(digests))} :
       \E dBytes \in {Reassemble(Len(comp), chunk_bytes(comp))} :
       \E res \in {FetchDataHandler(hashenv, dBytes, Len(PackDigests(digests)))} :
       \E ys \in {FetchLoopYields(hashenv, UnpackDigests(decompress(dBytes)), <<>>)} :
          /\ ~res.raised
          /\ k \in 1..Len(res.stream)
          /\ last' = [op |-> "FetchData", code |-> res.stream[k].code,
                      raised |-> FALSE, stream |-> SubSeq(res.stream, 1, k),
                      req |-> [digests |-> digests, cancelled |-> k]]
          /\ readers' =
                IF res.stream[1].code = DATA_LOSS THEN readers
                ELSE IF CloseReachesAbort(ys[k])
                THEN abort_reader_txn(begin_reader_txn(readers))
                ELSE begin_reader_txn(readers)
    /\ UNCHANGED <<branchenv, refenv, hashenv, remoteData>>

\* variant: every reply carries the size of its own slice
FetchCommitSizesSlices(commit) ==
    /\ \E raised \in BOOLEAN :
          last' =
             IF commitRefKey(commit) \notin DOMAIN refenv
             THEN [op |-> "FetchCommit", code |-> NOT_FOUND, raised |-> raised,
                   stream |-> <<[commit |-> commit, code |-> NOT_FOUND]>>,
                   req |-> [commit |-> commit]]
             ELSE LET commitRefVal == refenv[commitRefKey(commit)]
                      raw_data_chunks == chunk_bytes(commitRefVal)
                  IN  [op |-> "FetchCommit", code |-> OK, raised |-> FALSE,
                       stream |-> [i \in 1..Len(raw_data_chunks) |->
                                      [commit |-> commit,
                                       total_byte_size |-> Len(raw_data_chunks[i]),
                                       parent |-> refenv[commitParentKey(commit)],
                                       spec |-> refenv[commitSpecKey(commit)],
                                       ref |-> raw_data_chunks[i]]],
                       req |-> [commit |-> commit]]
    /\ UNCHANGED <<branchenv, refenv, hashenv, remoteData>>
    /\ UNCHANGED <<clientVars, lockVars, metaVars>>

\* The replies of FetchCommit: one per chunk of the ref bytes, each with the
\* parent and spec values and the size of the whole.  For a commit that is
\* not recorded the handler yields a NOT_FOUND reply and then raises
\* StopIteration inside the generator, which ends the stream cleanly or as
\* a RuntimeError, depending on the interpreter.
FetchCommit(commit) ==
    /\ \E raised \in BOOLEAN :
          last' =
             IF commitRefKey(commit) \notin DOMAIN refenv
             THEN [op |-> "FetchCommit", code |-> NOT_FOUND, raised |-> raised,
                   stream |-> <<[commit |-> commit, code |-> NOT_FOUND]>>,
                   req |-> [commit |-> commit]]
             ELSE LET commitRefVal == refenv[commitRefKey(commit)]
                      raw_data_chunks == chunk_bytes(commitRefVal)
                  IN  [op |-> "FetchCommit", code |-> OK, raised |-> FALSE,
                       stream |-> [i \in 1..Len(raw_data_chunks) |->
                                      [commit |-> commit,
                                       total_byte_size |-> Len(commitRefVal),
                                       parent |-> refenv[commitParentKey(commit)],
                                       spec |-> refenv[commitSpecKey(commit)],
                                       ref |-> raw_data_chunks[i]]],
                       req |-> [commit |-> commit]]
    /\ UNCHANGED <<branchenv, refenv, hashenv, remoteData>>
    /\ UNCHANGED <<clientVars, lockVars, metaVars>>

----------------------------------------------------------------------------
(* The fetching client: asks again for what it has not received             *)

Range(seq) == {seq[i] : i \in 1..Len(seq)}

Remaining(want, got) == SelectSeq(want, LAMBDA d : d \notin DOMAIN got)

\* The tensors of a reply stream: the data replies reassembled, decompressed
\* and unpacked; a tensor whose bytes do not hash to its digest is dropped.
RecievedTensors(stream) ==
    LET data == SelectSeq(stream, LAMBDA f : f.code = OK)
        buf == Reassemble(data[1].comp_nbytes,
                          [i \in 1..Len(data) |-> data[i].raw_data])
    IN  IF data = <<>> \/ DecompressFails(buf) THEN <<>>
        ELSE SelectSeq(UnpackTensorsFrom(decompress(buf), 1),
                       LAMBDA t : t.tuple /\ blake2b(t.data) = t.digest)

RECURSIVE Store(_, _)
Store(got, tensors) ==
    IF tensors = <<>> THEN got
    ELSE Store(Put(got, Head(tensors).digest, Head(tensors).data), Tail(tensors))

ClientStart(want) ==
    /\ cPc \in {"idle", "done", "failed"}
    /\ cWant' = want
    /\ cGot' = <<>>
    /\ cPc' = "fetching"
    /\ UNCHANGED <<serverVars, lockVars, metaVars>>

ClientFetchRound ==
    /\ cPc = "fetching"
    /\ \E asked \in {Remaining(cWant, cGot)} : FetchData(asked)
    /\ \E tensors \in {RecievedTensors(last'.stream)} : cGot' = Store(cGot, tensors)
    /\ cPc' = IF Remaining(cWant, cGot') = <<>> THEN "done"
              ELSE IF last'.code = RESOURCE_EXHAUSTED THEN "fetching"
              ELSE "failed"
    /\ UNCHANGED cWant
    /\ UNCHANGED <<lockVars, metaVars, restVars>>

----------------------------------------------------------------------------
(* History of the commit graph                                              *)

\* commiting.list_all_commits(refenv): every commit recorded in the ref store
list_all_commits(renv) == {c \in Commits : commitParentKey(c) \in DOMAIN renv}

\* marks the place of a commit that has no record in the ref store
Dangling == "dangling"

\* the commits from `commit` back to the root along the parent records,
\* newest first
RECURSIVE history_order(_, _)
history_order(renv, commit) ==
    IF commitParentKey(commit) \notin DOMAIN renv THEN <<Dangling>>
    ELSE LET parentVal == renv[commitParentKey(commit)]
         IN  IF parentVal = "" THEN <<commit>>
             ELSE <<commit>> \o history_order(renv, parentVal)

\* how a walk that meets a commit without a record ends: the ValueError the
\* handlers catch, or another exception
DanglingErrors == {"ValueError", "Exception"}

\* summarize.list_history(refenv, branchenv, branch_name): raises ValueError
\* for a branch that does not exist
list_history(renv, benv, branch_name, dangling) ==
    IF branch_name \notin get_branch_names(benv)
    THEN [raised |-> "ValueError", head |-> "", order |-> <<>>]
    ELSE LET head == get_branch_head_commit(benv, branch_name)
             order == history_order(renv, head)
         IN  IF Dangling \in Range(order)
             THEN [raised |-> dangling, head |-> head, order |-> <<>>]
             ELSE [raised |-> "", head |-> head, order |-> order]

----------------------------------------------------------------------------
(* Find-missing-commits RPCs                                                *)

CommitLists == {<<>>, <<"c1">>, <<"c2">>, <<"c2", "c1">>}

\* FindMissingCommitsReply: branch record, commits and error code
FindMissingCommitsReply(op, code, name, commit, commits, req) ==
    [op |-> op, code |-> code, raised |-> FALSE,
     stream |-> <<[branch |-> [name |-> name, commit |-> commit],
                   commits |-> commits]>>,
     req |-> req]

\* variant: answers with the commits of the client that the history lacks
FetchFindMissingCommitsReversed(branch_name, c_ordered_commits) ==
    /\ \E dangling \in DanglingErrors :
          LET req == [branch |-> branch_name, commits |-> c_ordered_commits]
              s_history == list_history(refenv, branchenv, branch_name, dangling)
          IN  last' =
                 IF s_history.raised = "ValueError"
                 THEN FindMissingCommitsReply("FetchFindMissingCommits", NOT_FOUND,
                                              "", "", {}, req)
                 ELSE IF s_history.raised # ""
                 THEN [Raise("FetchFindMissingCommits") EXCEPT !.req = req]
                 ELSE FindMissingCommitsReply(
                          "FetchFindMissingCommits", OK, branch_name, s_history.head,
                          Range(c_ordered_commits) \ Range(s_history.order), req)
    /\ UNCHANGED <<branchenv, refenv, hashenv, remoteData>>
    /\ UNCHANGED <<clientVars, lockVars, metaVars>>

FetchFindMissingCommits(branch_name, c_ordered_commits) ==
    /\ \E dangling \in DanglingErrors :
          LET req == [branch |-> branch_name, commits |-> c_ordered_commits]
              s_history == list_history(refenv, branchenv, branch_name, dangling)
          IN  last' =
                 IF s_history.raised = "ValueError"
                 THEN FindMissingCommitsReply("FetchFindMissingCommits", NOT_FOUND,
                                              "", "", {}, req)
                 ELSE IF s_history.raised # ""
                 THEN [Raise("FetchFindMissingCommits") EXCEPT !.req = req]
                 ELSE FindMissingCommitsReply(
                          "FetchFindMissingCommits", OK, branch_name, s_history.head,
                          Range(s_history.order) \ Range(c_ordered_commits), req)
    /\ UNCHANGED <<branchenv, refenv, hashenv, remoteData>>
    /\ UNCHANGED <<clientVars, lockVars, metaVars>>

\* variant: the difference is taken against the history of the named branch
PushFindMissingCommitsOfBranch(branch_name, c_head_commit, c_ordered_commits) ==
    /\ \E dangling \in DanglingErrors :
          LET req == [branch |-> branch_name, head |-> c_head_commit,
                      commits |-> c_ordered_commits]
              s_history == list_history(refenv, branchenv, branch_name, dangling)
          IN  last' = FindMissingCommitsReply(
                          "PushFindMissingCommits", OK, branch_name, c_head_commit,
                          Range(c_ordered_commits) \ Range(s_history.order), req)
    /\ UNCHANGED <<branchenv, refenv, hashenv, remoteData>>
    /\ UNCHANGED <<clientVars, lockVars, metaVars>>

PushFindMissingCommits(branch_name, c_head_commit, c_ordered_commits) ==
    /\ LET req == [branch |-> branch_name, head |-> c_head_commit,
                   commits |-> c_ordered_commits]
           s_commits == list_all_commits(refenv)
           s_missing == Range(c_ordered_commits) \ s_commits
       IN  last' = FindMissingCommitsReply(
                       "PushFindMissingCommits", OK, branch_name, c_head_commit,
                       s_missing, req)
    /\ UNCHANGED <<branchenv, refenv, hashenv, remoteData>>
    /\ UNCHANGED <<clientVars, lockVars, metaVars>>

----------------------------------------------------------------------------
(* The records of a commit                                                  *)

LabelVals == {0, 1}

\* hashlib.blake2b(uncompBlob, digest_size=20).hexdigest() of a label value
LabelHash(uncompBlob) ==
    IF Len(uncompBlob) = 1 THEN blake2b(uncompBlob[1]) ELSE "dX"

NoRecords == [schemas |-> {}, data |-> <<>>, labels |-> {}]

\* What the ref bytes of a commit unpack to, as RecordQuery reads it:
\* schema_hashes(), data_hash_to_schema_hash() and metadata_hashes()
RefRecords(refBytes) ==
    CASE refBytes = <<1, 0>> ->
            [schemas |-> {"s1"}, data |-> ("d0" :> "s1"), labels |-> {"d0"}]
      [] refBytes = <<2, 3>> ->
            [schemas |-> {"s1", "s2"}, data |-> ("d0" :> "s1") @@ ("d1" :> "s2"),
             labels |-> {"d0", "d1"}]
      [] OTHER -> NoRecords

\* commiting.unpack_commit_ref(refenv, tmpDB, commit): fails for a commit
\* without a ref record
unpack_commit_ref(renv, commit) ==
    IF commitRefKey(commit) \in DOMAIN renv
    THEN [raised |-> FALSE, records |-> RefRecords(renv[commitRefKey(commit)])]
    ELSE [raised |-> TRUE, records |-> NoRecords]

\* HashQuery(hashenv).list_all_hash_keys_raw()
list_all_hash_keys_raw(henv) == DOMAIN henv
\* HashQuery(hashenv).list_all_schema_keys_raw()
list_all_schema_keys_raw(senv) == DOMAIN senv
\* map(parsing.hash_meta_raw_key_from_db_key, list_all_hash_keys_db())
list_all_label_keys_raw(lenv) == DOMAIN lenv

----------------------------------------------------------------------------
(* Find-missing RPCs for schemas, data hashes and labels                    *)

SchemaLists == {<<>>, <<"s1">>, <<"s2">>, <<"s1", "s2">>}
HashLists == {<<>>, <<"d0">>, <<"d1">>, <<"d0", "d1">>}

\* the request stream of a hash list as the handler reassembles and unpacks
\* it: set(msgpack.unpackb(blosc.decompress(hBytes)))
RecievedHashset(c_hashes) ==
    LET comp == compress(PackDigests(c_hashes))
        hBytes == Reassemble(Len(comp), chunk_bytes(comp))
    IN  Range(UnpackDigests(decompress(hBytes)))

\* FindMissingSchemasReply, FindMissingHashRecordsReply, FindMissingLabelsReply:
\* the commit and the digests (schema_digests, or the unpacked hashs)
FindMissingReply(op, commit, missing, req) ==
    [op |-> op, code |-> OK, raised |-> FALSE,
     stream |-> <<[commit |-> commit, hashs |-> missing]>>, req |-> req]

\* chunks.missingHashIterator(commit, hashes, err, response_pb): the items of
\* the list it packs, each the sequence of its fields
HashItem(digest) == <<digest>>
HashSchemaItem(digest, schema_hash) == <<digest, schema_hash>>

FetchFindMissingSchemas(commit, c_schemas) ==
    /\ LET req == [commit |-> commit, digests |-> c_schemas]
           un == unpack_commit_ref(refenv, commit)
           s_schemas == un.records.schemas
           c_missing == s_schemas \ Range(c_schemas)
       IN  last' = IF un.raised
                   THEN [Raise("FetchFindMissingSchemas") EXCEPT !.req = req]
                   ELSE FindMissingReply("FetchFindMissingSchemas", commit, c_missing, req)
    /\ UNCHANGED <<branchenv, refenv, hashenv, remoteData>>
    /\ UNCHANGED <<clientVars, lockVars, metaVars>>

\* variant: answers with every digest the client listed
PushFindMissingSchemasEchoes(commit, c_schemas) ==
    /\ LET req == [commit |-> commit, digests |-> c_schemas]
       IN  last' = FindMissingReply("PushFindMissingSchemas", commit, Range(c_schemas), req)
    /\ UNCHANGED <<branchenv, refenv, hashenv, remoteData>>
    /\ UNCHANGED <<clientVars, lockVars, metaVars>>

PushFindMissingSchemas(commit, c_schemas) ==
    /\ LET req == [commit |-> commit, digests |-> c_schemas]
           s_schemas == list_all_schema_keys_raw(schemaenv)
           s_missing == Range(c_schemas) \ s_schemas
       IN  last' = FindMissingReply("PushFindMissingSchemas", commit, s_missing, req)
    /\ UNCHANGED <<branchenv, refenv, hashenv, remoteData>>
    /\ UNCHANGED <<clientVars, lockVars, metaVars>>

\* variant: pairs every digest with the schema "s1"
FetchFindMissingHashRecordsOneSchema(commit, c_hashes) ==
    /\ LET req == [commit |-> commit, digests |-> c_hashes]
           un == unpack_commit_ref(refenv, commit)
           c_missing == DOMAIN un.records.data \ RecievedHashset(c_hashes)
       IN  last' = IF un.raised
                   THEN [Raise("FetchFindMissingHashRecords") EXCEPT !.req = req]
                   ELSE FindMissingReply("FetchFindMissingHashRecords", commit,
                                         {HashSchemaItem(c_mis, "s1") : c_mis \in c_missing},
                                         req)
    /\ UNCHANGED <<branchenv, refenv, hashenv, remoteData>>
    /\ UNCHANGED <<clientVars, lockVars, metaVars>>

FetchFindMissingHashRecords(commit, c_hashes) ==
    /\ LET req == [commit |-> commit, digests |-> c_hashes]
           c_hashset == RecievedHashset(c_hashes)
           un == unpack_commit_ref(refenv, commit)
           s_hashes_schemas == un.records.data
           s_hashes == DOMAIN s_hashes_schemas
           c_missing == s_hashes \ c_hashset
           c_hash_schemas ==
               {HashSchemaItem(c_mis, s_hashes_schemas[c_mis]) : c_mis \in c_missing}
       IN  last' = IF un.raised
                   THEN [Raise("FetchFindMissingHashRecords") EXCEPT !.req = req]
                   ELSE FindMissingReply("FetchFindMissingHashRecords", commit,
                                         c_hash_schemas, req)
    /\ UNCHANGED <<branchenv, refenv, hashenv, remoteData>>
    /\ UNCHANGED <<clientVars, lockVars, metaVars>>

PushFindMissingHashRecords(commit, c_hashes) ==
    /\ LET req == [commit |-> commit, digests |-> c_hashes]
           c_hashset == RecievedHashset(c_hashes)
           s_hashset == list_all_hash_keys_raw(hashenv)
           s_missing == c_hashset \ s_hashset
       IN  last' = FindMissingReply("PushFindMissingHashRecords", commit,
                                    {HashItem(s_mis) : s_mis \in s_missing}, req)
    /\ UNCHANGED <<branchenv, refenv, hashenv, remoteData>>
    /\ UNCHANGED <<clientVars, lockVars, metaVars>>

\* variant: answers with the digests the client listed that the commit lacks
FetchFindMissingLabelsOfClient(commit, c_hashes) ==
    /\ LET req == [commit |-> commit, digests |-> c_hashes]
           c_hashset == RecievedHashset(c_hashes)
           un == unpack_commit_ref(refenv, commit)
           s_missing == c_hashset \ un.records.labels
       IN  last' = IF un.raised
                   THEN [Raise("FetchFindMissingLabels") EXCEPT !.req = req]
                   ELSE FindMissingReply("FetchFindMissingLabels", commit,
                                         {HashItem(s_mis) : s_mis \in s_missing}, req)
    /\ UNCHANGED <<branchenv, refenv, hashenv, remoteData>>
    /\ UNCHANGED <<clientVars, lockVars, metaVars>>

FetchFindMissingLabels(commit, c_hashes) ==
    /\ LET req == [commit |-> commit, digests |-> c_hashes]
           c_hashset == RecievedHashset(c_hashes)
           un == unpack_commit_ref(refenv, commit)
           s_hashes == un.records.labels
           c_missing == s_hashes \ c_hashset
       IN  last' = IF un.raised
                   THEN [Raise("FetchFindMissingLabels") EXCEPT !.req = req]
                   ELSE FindMissingReply("FetchFindMissingLabels", commit,
                                         {HashItem(c_mis) : c_mis \in c_missing}, req)
    /\ UNCHANGED <<branchenv, refenv, hashenv, remoteData>>
    /\ UNCHANGED <<clientVars, lockVars, metaVars>>

PushFindMissingLabels(commit, c_hashes) ==
    /\ LET req == [commit |-> commit, digests |-> c_hashes]
           c_hashset == RecievedHashset(c_hashes)
           s_hashset == list_all_label_keys_raw(labelenv)
           s_missing == c_hashset \ s_hashset
       IN  last' = FindMissingReply("PushFindMissingLabels", commit,
                                    {HashItem(s_mis) : s_mis \in s_missing}, req)
    /\ UNCHANGED <<branchenv, refenv, hashenv, remoteData>>
    /\ UNCHANGED <<clientVars, lockVars, metaVars>>

----------------------------------------------------------------------------
(* Schema and label records                                                 *)

SchemaBlobs == {0, 1}

\* ContentWriter.schema(schema_hash, schema_val): writes the record unless
\* the digest is already recorded; returns the digest written or "" (falsey)
CW_schema(senv, schema_hash, schema_val) ==
    IF schema_hash \in DOMAIN senv THEN [digest |-> "", schemaenv |-> senv]
    ELSE [digest |-> schema_hash, schemaenv |-> Put(senv, schema_hash, schema_val)]

\* ContentWriter.label(digest, labelVal): writes the record unless the digest
\* is already recorded; returns the digest written or "" (falsey)
CW_label(lenv, digest, labelVal) ==
    IF digest \in DOMAIN lenv THEN [digest |-> "", labelenv |-> lenv]
    ELSE [digest |-> digest, labelenv |-> Put(lenv, digest, labelVal)]

MetaRequest(digest, blob) == [digest |-> digest, blob |-> blob]

FetchSchema(schema_hash) ==
    /\ last' = IF schema_hash \in DOMAIN schemaenv
               THEN [op |-> "FetchSchema", code |-> OK, raised |-> FALSE,
                     stream |-> <<[digest |-> schema_hash, blob |-> schemaenv[schema_hash]]>>,
                     req |-> MetaRequest(schema_hash, 0)]
               ELSE [Reply("FetchSchema", NOT_FOUND) EXCEPT
                        !.req = MetaRequest(schema_hash, 0)]
    /\ UNCHANGED <<branchenv, refenv, hashenv, remoteData>>
    /\ UNCHANGED <<clientVars, lockVars, metaVars>>

\* variant: a schema that exists is written again
PushSchemaOverwrites(schema_hash, schema_val) ==
    /\ schemaenv' = Put(schemaenv, schema_hash, schema_val)
    /\ last' = [Reply("PushSchema",
                      IF schema_hash \in DOMAIN schemaenv THEN ALREADY_EXISTS ELSE OK)
                   EXCEPT !.req = MetaRequest(schema_hash, schema_val)]
    /\ UNCHANGED labelenv
    /\ UNCHANGED <<branchenv, refenv, hashenv, remoteData>>
    /\ UNCHANGED <<clientVars, lockVars>>

PushSchema(schema_hash, schema_val) ==
    /\ LET res == CW_schema(schemaenv, schema_hash, schema_val)
       IN  /\ schemaenv' = res.schemaenv
           /\ last' = [Reply("PushSchema",
                             IF res.digest = "" THEN ALREADY_EXISTS ELSE OK)
                          EXCEPT !.req = MetaRequest(schema_hash, schema_val)]
    /\ UNCHANGED labelenv
    /\ UNCHANGED <<branchenv, refenv, hashenv, remoteData>>
    /\ UNCHANGED <<clientVars, lockVars>>

FetchLabel(digest) ==
    /\ last' = IF digest \in DOMAIN labelenv
               THEN [op |-> "FetchLabel", code |-> OK, raised |-> FALSE,
                     stream |-> <<[digest |-> digest, blob |-> compress(labelenv[digest])]>>,
                     req |-> MetaRequest(digest, <<>>)]
               ELSE [Reply("FetchLabel", NOT_FOUND) EXCEPT
                        !.req = MetaRequest(digest, <<>>)]
    /\ UNCHANGED <<branchenv, refenv, hashenv, remoteData>>
    /\ UNCHANGED <<clientVars, lockVars, metaVars>>

\* variant: the value is stored under the declared digest without a check
PushLabelUnverified(req_digest, blob) ==
    /\ LET uncompBlob == decompress(blob)
           res == CW_label(labelenv, req_digest, uncompBlob)
       IN  IF DecompressFails(blob)
           THEN /\ labelenv' = labelenv
                /\ last' = [Raise("PushLabel") EXCEPT !.req = MetaRequest(req_digest, blob)]
           ELSE /\ labelenv' = res.labelenv
                /\ last' = [Reply("PushLabel",
                                  IF res.digest = "" THEN ALREADY_EXISTS ELSE OK)
                               EXCEPT !.req = MetaRequest(req_digest, blob)]
    /\ UNCHANGED schemaenv
    /\ UNCHANGED <<branchenv, refenv, hashenv, remoteData>>
    /\ UNCHANGED <<clientVars, lockVars>>

PushLabel(req_digest, blob) ==
    /\ LET uncompBlob == decompress(blob)
           recieved_hash == LabelHash(uncompBlob)
           res == CW_label(labelenv, recieved_hash, uncompBlob)
       IN  IF DecompressFails(blob)
           THEN /\ labelenv' = labelenv
                /\ last' = [Raise("PushLabel") EXCEPT !.req = MetaRequest(req_digest, blob)]
           ELSE IF recieved_hash # req_digest
           THEN /\ labelenv' = labelenv
                /\ last' = [Reply("PushLabel", DATA_LOSS)
                               EXCEPT !.req = MetaRequest(req_digest, blob)]
           ELSE /\ labelenv' = res.labelenv
                /\ last' = [Reply("PushLabel",
                                  IF res.digest = "" THEN ALREADY_EXISTS ELSE OK)
                               EXCEPT !.req = MetaRequest(req_digest, blob)]
    /\ UNCHANGED schemaenv
    /\ UNCHANGED <<branchenv, refenv, hashenv, remoteData>>
    /\ UNCHANGED <<clientVars, lockVars>>

----------------------------------------------------------------------------
(* The writer lock of a repository                                          *)

Callers == {"p1", "p2", "p3"}

\* str.encode()
encode(str) == <<"bytes", str>>

WLOCK_SENTINAL == "LOCK_AVAILABLE"

repo_writer_lock_sentinal_db_val == encode(WLOCK_SENTINAL)

repo_writer_lock_force_release_sentinal == "FORCE_RELEASE"

\* variant: every writer's token is the value that means "free"
LockValIsSentinal(lock_uuid) == encode(WLOCK_SENTINAL)

repo_writer_lock_db_val_from_raw_val(lock_uuid) == encode(lock_uuid)

\* the uuid a WriterCheckout draws when it is constructed
Uuid(p, n) == p \o "-" \o ToString(n)

\* heads.acquire_writer_lock, inside one writer transaction of the branch
\* store: reads the lock value; when it is the sentinel, writes the writer's
\* token and succeeds; otherwise fails
acquire_writer_lock(lockVal, writer_uuid) ==
    IF lockVal = repo_writer_lock_sentinal_db_val
    THEN [success |-> TRUE, lock |-> repo_writer_lock_db_val_from_raw_val(writer_uuid)]
    ELSE [success |-> FALSE, lock |-> lockVal]

\* heads.release_writer_lock: valid for the holder's uuid and for the
\* force-release sentinel
release_writer_lock(lockVal, writer_uuid) ==
    IF writer_uuid = repo_writer_lock_force_release_sentinal
       \/ lockVal = repo_writer_lock_db_val_from_raw_val(writer_uuid)
    THEN [success |-> TRUE, lock |-> repo_writer_lock_sentinal_db_val]
    ELSE [success |-> FALSE, lock |-> lockVal]

NoCheckout == [st |-> "none", uuid |-> "", n |-> 0]

\* Repository.checkout(write=True): WriterCheckout(...) acquires the lock or
\* fails with PermissionError
checkout(p) ==
    /\ co[p].st # "writer"
    /\ co[p].n < MaxCheckouts
    /\ LET uuid == Uuid(p, co[p].n + 1)
           res == acquire_writer_lock(wlock, uuid)
       IN  /\ wlock' = res.lock
           /\ co' = [co EXCEPT ![p] =
                        [st |-> IF res.success THEN "writer" ELSE "failed",
                         uuid |-> uuid, n |-> co[p].n + 1]]
    /\ UNCHANGED <<serverVars, clientVars, metaVars>>

\* WriterCheckout.close(): releases the lock with the checkout's uuid
close(p) ==
    /\ co[p].st = "writer"
    /\ wlock' = release_writer_lock(wlock, co[p].uuid).lock
    /\ co' = [co EXCEPT ![p].st = "closed"]
    /\ UNCHANGED <<serverVars, clientVars, metaVars>>

\* what force_release_writer_lock returns: the success of the release
ForceReleaseReturn(success) ==
    [op |-> "force_release_writer_lock", code |-> OK, raised |-> FALSE,
     stream |-> <<success>>, req |-> NoRequest]

\* variant: the release is asked for under the sentinel of the free lock
ForceReleaseWithLockSentinal ==
    /\ LET res == release_writer_lock(wlock, WLOCK_SENTINAL)
       IN  /\ wlock' = res.lock
           /\ last' = ForceReleaseReturn(res.success)
    /\ UNCHANGED co
    /\ UNCHANGED <<branchenv, refenv, hashenv, remoteData, clientVars, metaVars>>

force_release_writer_lock ==
    /\ LET res == release_writer_lock(wlock, repo_writer_lock_force_release_sentinal)
       IN  /\ wlock' = res.lock
           /\ last' = ForceReleaseReturn(res.success)
    /\ UNCHANGED co
    /\ UNCHANGED <<branchenv, refenv, hashenv, remoteData, clientVars, metaVars>>

----------------------------------------------------------------------------
(* Two client repositories: "A" commits and pushes, "B" fetches             *)

Repos == {"A", "B"}

NoStores ==
    [branchenv |-> <<>>, refenv |-> <<>>, hashenv |-> <<>>, schemaenv |-> <<>>,
     labelenv |-> <<>>]

\* A transfer: where it stands, the calls still to make, the head it moves,
\* the data digests it still wants with their schemas.  `clean` says of "A"
\* that nothing was committed since its last push ended, and of "B" that its
\* fetch began on such a server and nothing was committed since.
Idle == [pc |-> "idle", queue |-> <<>>, head |-> "", want |-> <<>>, clean |-> FALSE]

Task(k, x) == [k |-> k, x |-> x]
Tasks(k, xs) == [i \in 1..Len(xs) |-> Task(k, xs[i])]

\* the calls of a transfer for each commit of `todo` in turn
Plan(kinds, todo) ==
    [i \in 1..(Len(kinds) * Len(todo)) |->
        Task(kinds[((i - 1) % Len(kinds)) + 1], todo[((i - 1) \div Len(kinds)) + 1])]

InOrder(universe, S) == SelectSeq(universe, LAMBDA x : x \in S)
CommitOrder == <<"c1", "c2">>
SchemaOrder == <<"s1", "s2">>
DigestOrder == <<"d0", "d1", "d2">>

\* the bytes a digest is the hash of; the blob a schema digest is the hash of
DataOf(d) == CHOOSE b \in TensorBytes : blake2b(b) = d
SchemaBlobOf(s) == SchemaIdx(s)

----------------------------------------------------------------------------
(* records.parsing: the codec of record keys and values                     *)
(* A str is a sequence of characters; bytes are encode(str).                *)

\* constants.py: the separators and key prefixes
cst == [SEP_KEY   |-> <<":">>,
        SEP_CMT   |-> <<" ", "<", "<", " ">>,
        K_BRANCH  |-> <<"b", "r", "a", "n", "c", "h", ":">>,
        K_REMOTES |-> <<"r", "e", "m", "o", "t", "e", ":">>,
        K_STGARR  |-> <<"a", ":">>,
        K_STGMETA |-> <<"l", ":">>,
        K_SCHEMA  |-> <<"s", ":">>,
        K_HASH    |-> <<"h", ":">>]

\* bytes.decode()
decode(db) == db[2]

\* no record has been encoded yet
NoCodec == [class |-> "none"]

\* str.find(sub) + 1: where sub first occurs in s, 0 when it does not
find(s, sub) ==
    LET at == {i \in 1..(Len(s) - Len(sub) + 1) : SubSeq(s, i, i + Len(sub) - 1) = sub}
    IN  IF at = {} THEN 0 ELSE CHOOSE i \in at : \A j \in at : i <= j

\* s.replace(old, '', 1)
replace_once(s, old) ==
    LET i == find(s, old)
    IN  IF i = 0 THEN s ELSE SubSeq(s, 1, i - 1) \o SubSeq(s, i + Len(old), Len(s))

RECURSIVE split(_, _)
\* s.split(sep)
split(s, sep) ==
    LET i == find(s, sep)
    IN  IF i = 0 THEN <<s>>
        ELSE <<SubSeq(s, 1, i - 1)>> \o split(SubSeq(s, i + Len(sep), Len(s)), sep)

RECURSIVE str_of_int(_)
\* f'{n}' of a count: ASCII decimal
str_of_int(n) ==
    LET digits == <<"0", "1", "2", "3", "4", "5", "6", "7", "8", "9">>
    IN  IF n < 10 THEN <<digits[n + 1]>>
        ELSE str_of_int(n \div 10) \o <<digits[(n % 10) + 1]>>

RECURSIVE int_of_str(_)
\* int(s) of a string of decimal digits
int_of_str(s) ==
    LET digits == <<"0", "1", "2", "3", "4", "5", "6", "7", "8", "9">>
        val(ch) == (CHOOSE i \in 1..10 : digits[i] = ch) - 1
    IN  IF Len(s) = 1 THEN val(s[1])
        ELSE 10 * int_of_str(SubSeq(s, 1, Len(s) - 1)) + val(s[Len(s)])

\* the record classes whose key is a fixed prefix and a name, with the prefix
KeyPrefix ==
    [branch_head |-> cst.K_BRANCH, remote |-> cst.K_REMOTES,
     dataset_record_count |-> cst.K_STGARR, dataset_record_schema |-> cst.K_SCHEMA,
     metadata_record |-> cst.K_STGMETA, hash_schema |-> cst.K_SCHEMA,
     hash_data |-> cst.K_HASH, hash_meta |-> cst.K_HASH, commit_parent |-> <<>>]

\* <class>_db_key_from_raw_key(name): f'{prefix}{name}'.encode()
db_key_from_raw_key(class, name) == encode(KeyPrefix[class] \o name)

\* <class>_raw_key_from_db_key(db_key): the remote key is sliced after the
\* length of its prefix, the commit parent key is the digest as it is, every
\* other key has the first occurrence of its prefix removed
raw_key_from_db_key(class, db_key) ==
    IF class = "remote"
    THEN SubSeq(decode(db_key), Len(cst.K_REMOTES) + 1, Len(decode(db_key)))
    ELSE IF class = "commit_parent" THEN decode(db_key)
    ELSE replace_once(decode(db_key), KeyPrefix[class])

\* variant: the dataset and sample names are joined without the separator
data_record_db_key_unseparated(dset_name, data_name) ==
    encode(cst.K_STGARR \o dset_name \o data_name)

data_record_db_key_from_raw_key(dset_name, data_name) ==
    encode(cst.K_STGARR \o dset_name \o cst.SEP_KEY \o data_name)

\* dset_name, data_name = key.replace(cst.K_STGARR, '', 1).split(cst.SEP_KEY):
\* the unpacking raises ValueError unless the split yields two parts
data_record_raw_key_from_db_key(db_key) ==
    LET parts == split(replace_once(decode(db_key), cst.K_STGARR), cst.SEP_KEY)
    IN  IF Len(parts) # 2 THEN [raised |-> "ValueError", key |-> <<>>]
        ELSE [raised |-> "", key |-> <<parts[1], parts[2]>>]

\* the record classes by the shape of their value: a string written as it
\* is, a count written in decimal, the head pointer written as a branch key
ValueShape ==
    [branch_head |-> "str", writer_lock |-> "str", remote |-> "str",
     data_record |-> "str", metadata_record |-> "str", hash_meta |-> "str",
     dataset_record_count |-> "int", dataset_total_count |-> "int",
     metadata_count |-> "int", head |-> "branch"]

\* <class>_db_val_from_raw_val
db_val_from_raw_val(class, raw_val) ==
    CASE ValueShape[class] = "str" -> encode(raw_val)
      [] ValueShape[class] = "int" -> encode(str_of_int(raw_val))
      [] ValueShape[class] = "branch" -> encode(cst.K_BRANCH \o raw_val)

\* <class>_raw_val_from_db_val
raw_val_from_db_val(class, db_val) ==
    CASE ValueShape[class] = "str" -> decode(db_val)
      [] ValueShape[class] = "int" -> int_of_str(decode(db_val))
      [] ValueShape[class] = "branch" -> replace_once(decode(db_val), cst.K_BRANCH)

\* A key of a prefixed class encoded and decoded
KeyRoundTrip(class, name) ==
    /\ codec = NoCodec
    /\ codec' = [class |-> class, part |-> "key", raw |-> name,
                 db |-> db_key_from_raw_key(class, name), raised |-> "",
                 back |-> raw_key_from_db_key(class, db_key_from_raw_key(class, name))]
    /\ UNCHANGED <<serverVars, clientVars, lockVars, metaVars>>

\* A dataset record key encoded and decoded
DataRecordKeyRoundTrip(dset_name, data_name) ==
    /\ codec = NoCodec
    /\ codec' = [class |-> "data_record", part |-> "key",
                 raw |-> <<dset_name, data_name>>,
                 db |-> data_record_db_key_from_raw_key(dset_name, data_name),
                 raised |-> data_record_raw_key_from_db_key(
                     data_record_db_key_from_raw_key(dset_name, data_name)).raised,
                 back |-> data_record_raw_key_from_db_key(
                     data_record_db_key_from_raw_key(dset_name, data_name)).key]
    /\ UNCHANGED <<serverVars, clientVars, lockVars, metaVars>>

\* dataset_total_count_db_key(): the prefix of the dataset records alone
dataset_total_count_db_key == encode(cst.K_STGARR)

\* The key of a dataset record and the key of another record of the same
\* store, encoded side by side: names holds the names of the other record
EncodeKeys(dset_name, data_name, class, names) ==
    /\ codec = NoCodec
    /\ codec' = [class |-> "key_pair", part |-> class,
                 raw |-> <<dset_name, data_name>>,
                 db |-> data_record_db_key_from_raw_key(dset_name, data_name),
                 raised |-> "",
                 back |-> names,
                 other |-> IF class = "data_record"
                           THEN data_record_db_key_from_raw_key(names[1], names[2])
                           ELSE IF class = "dataset_total_count"
                           THEN dataset_total_count_db_key
                           ELSE db_key_from_raw_key(class, names[1])]
    /\ UNCHANGED <<serverVars, clientVars, lockVars, metaVars>>

\* A value encoded and decoded
ValueRoundTrip(class, raw_val) ==
    /\ codec = NoCodec
    /\ codec' = [class |-> class, part |-> "val", raw |-> raw_val,
                 db |-> db_val_from_raw_val(class, raw_val), raised |-> "",
                 back |-> raw_val_from_db_val(class, db_val_from_raw_val(class, raw_val))]
    /\ UNCHANGED <<serverVars, clientVars, lockVars, metaVars>>

commit_parent_db_val_from_raw_val(master_ancestor, dev_ancestor, is_merge_commit) ==
    encode(IF is_merge_commit
           THEN master_ancestor \o cst.SEP_CMT \o dev_ancestor
           ELSE master_ancestor)

\* variant: the parents of a merge are read in the opposite order
commit_parent_raw_val_swapped(db_val) ==
    LET commit_ancestors == split(decode(db_val), cst.SEP_CMT)
    IN  IF Len(commit_ancestors) = 1
        THEN [is_merge_commit |-> FALSE, master_ancestor |-> commit_ancestors[1],
              dev_ancestor |-> <<>>]
        ELSE [is_merge_commit |-> TRUE, master_ancestor |-> commit_ancestors[2],
              dev_ancestor |-> commit_ancestors[1]]

commit_parent_raw_val_from_db_val(db_val) ==
    LET commit_ancestors == split(decode(db_val), cst.SEP_CMT)
    IN  IF Len(commit_ancestors) = 1
        THEN [is_merge_commit |-> FALSE, master_ancestor |-> commit_ancestors[1],
              dev_ancestor |-> <<>>]
        ELSE [is_merge_commit |-> TRUE, master_ancestor |-> commit_ancestors[1],
              dev_ancestor |-> commit_ancestors[2]]

\* The parents of a commit encoded and decoded
CommitParentRoundTrip(master_ancestor, dev_ancestor, is_merge_commit) ==
    /\ codec = NoCodec
    /\ codec' = [class |-> "commit_parent", part |-> "val",
                 raw |-> [is_merge_commit |-> is_merge_commit,
                          master_ancestor |-> master_ancestor,
                          dev_ancestor |-> dev_ancestor],
                 db |-> commit_parent_db_val_from_raw_val(
                            master_ancestor, dev_ancestor, is_merge_commit),
                 raised |-> "",
                 back |-> commit_parent_raw_val_from_db_val(
                              commit_parent_db_val_from_raw_val(
                                  master_ancestor, dev_ancestor, is_merge_commit))]
    /\ UNCHANGED <<serverVars, clientVars, lockVars, metaVars>>

RECURSIVE pack_items(_)
\* msgpack.packb of the pairs, use_bin_type=True: each pair an array of two
\* bin objects, a bin object its length and then its bytes
pack_items(pairs) ==
    IF pairs = <<>> THEN <<>>
    ELSE LET k == decode(Head(pairs)[1])
             v == decode(Head(pairs)[2])
         IN  <<2, Len(k)>> \o k \o <<Len(v)>> \o v \o pack_items(Tail(pairs))

RECURSIVE unpack_items(_, _)
\* msgpack.unpackb, use_list=False: n arrays of two bin objects read off buf
unpack_items(buf, n) ==
    IF n = 0 THEN <<>>
    ELSE LET klen == buf[2]
             k == SubSeq(buf, 3, 2 + klen)
             vlen == buf[3 + klen]
             v == SubSeq(buf, 4 + klen, 3 + klen + vlen)
         IN  <<<<encode(k), encode(v)>>>>
                 \o unpack_items(SubSeq(buf, 4 + klen + vlen, Len(buf)), n - 1)

RECURSIVE as_dict(_)
\* dict(pairs) as a list of items: a key keeps its first place and its last
\* value
as_dict(pairs) ==
    IF pairs = <<>> THEN <<>>
    ELSE LET init == as_dict(SubSeq(pairs, 1, Len(pairs) - 1))
             item == pairs[Len(pairs)]
         IN  IF \E i \in 1..Len(init) : init[i][1] = item[1]
             THEN [i \in 1..Len(init) |->
                      IF init[i][1] = item[1] THEN item ELSE init[i]]
             ELSE Append(init, item)

\* variant: the pairs are packed as a map from key to value
commit_ref_db_val_as_map(commit_db_key_val_list) ==
    compress(<<Len(as_dict(commit_db_key_val_list))>>
                 \o pack_items(as_dict(commit_db_key_val_list)))

\* msgpack.packb(tuple(commit_db_key_val_list)), then blosc.compress
commit_ref_db_val_from_raw_val(commit_db_key_val_list) ==
    compress(<<Len(commit_db_key_val_list)>> \o pack_items(commit_db_key_val_list))

\* blosc.decompress, then msgpack.unpackb
commit_ref_raw_val_from_db_val(commit_db_val) ==
    LET uncompressed_db_list == decompress(commit_db_val)
    IN  unpack_items(Tail(uncompressed_db_list), Head(uncompressed_db_list))

\* The records of a commit encoded and decoded
CommitRefRoundTrip(commit_db_key_val_list) ==
    /\ codec = NoCodec
    /\ codec' = [class |-> "commit_ref", part |-> "val",
                 raw |-> commit_db_key_val_list,
                 db |-> commit_ref_db_val_from_raw_val(commit_db_key_val_list),
                 raised |-> "",
                 back |-> commit_ref_raw_val_from_db_val(
                              commit_ref_db_val_from_raw_val(commit_db_key_val_list))]
    /\ UNCHANGED <<serverVars, clientVars, lockVars, metaVars>>

\* what txn.get returns for a key that is absent: an object that is not bytes
None == <<"NoneType", <<>>>>

\* try: db_val.decode(), except AttributeError: ''
repo_branch_head_raw_val_from_db_val(db_val) ==
    IF db_val[1] = "bytes"
    THEN [raised |-> "", val |-> decode(db_val)]
    ELSE [raised |-> "", val |-> <<>>]

\* A value read from the branch store is decoded as a branch head
DecodeBranchHeadVal(db_val) ==
    /\ codec = NoCodec
    /\ codec' = [class |-> "branch_head", part |-> "db_val", raw |-> <<>>,
                 db |-> db_val,
                 raised |-> repo_branch_head_raw_val_from_db_val(db_val).raised,
                 back |-> repo_branch_head_raw_val_from_db_val(db_val).val]
    /\ UNCHANGED <<serverVars, clientVars, lockVars, metaVars>>

\* A key read from the staging store is decoded as a dataset record key
DecodeDataRecordKey(db_key) ==
    /\ codec = NoCodec
    /\ codec' = [class |-> "data_record", part |-> "db_key", raw |-> <<>>,
                 db |-> db_key,
                 raised |-> data_record_raw_key_from_db_key(db_key).raised,
                 back |-> data_record_raw_key_from_db_key(db_key).key]
    /\ UNCHANGED <<serverVars, clientVars, lockVars, metaVars>>

----------------------------------------------------------------------------
(* Repository.create_branch                                                 *)

\* a repository before init: no branch, nothing called yet
NoBranches ==
    [repo_is_initialized |-> FALSE, branchenv |-> <<>>, stageenv |-> {},
     lock_free |-> TRUE, accessed |-> FALSE,
     outcome |-> [op |-> "none", branch_name |-> <<>>, base_commit |-> "",
                  remove_old |-> FALSE, raised |-> ""]]

\* variant: the name is matched from its start, not as a whole
is_suitable_user_key_prefix(key) ==
    /\ key # <<>>
    /\ key[1] \in {"a", "b", "c", "d", "e", "f", "g", "h", "i", "j", "k", "l", "m",
                   "n", "o", "p", "q", "r", "s", "t", "u", "v", "w", "x", "y", "z",
                   "A", "B", "C", "D", "E", "F", "G", "H", "I", "J", "K", "L", "M",
                   "N", "O", "P", "Q", "R", "S", "T", "U", "V", "W", "X", "Y", "Z",
                   "0", "1", "2", "3", "4", "5", "6", "7", "8", "9", ".", "_", "-"}

\* utils.is_suitable_user_key: the whole name is of the class [A-Za-z0-9._-]+
is_suitable_user_key(key) ==
    /\ key # <<>>
    /\ \A i \in 1..Len(key) :
          key[i] \in {"a", "b", "c", "d", "e", "f", "g", "h", "i", "j", "k", "l", "m",
                      "n", "o", "p", "q", "r", "s", "t", "u", "v", "w", "x", "y", "z",
                      "A", "B", "C", "D", "E", "F", "G", "H", "I", "J", "K", "L", "M",
                      "N", "O", "P", "Q", "R", "S", "T", "U", "V", "W", "X", "Y", "Z",
                      "0", "1", "2", "3", "4", "5", "6", "7", "8", "9", ".", "_", "-"}

\* Repository.init: the environments of the repository are set up
Repository_init ==
    /\ ~local.repo_is_initialized
    /\ local' = [local EXCEPT !.repo_is_initialized = TRUE,
                              !.accessed = TRUE,
                              !.outcome = [NoBranches.outcome EXCEPT !.op = "init"]]
    /\ UNCHANGED <<serverVars, clientVars, lockVars, metaVars>>

\* Repository.create_branch(branch_name, base_commit): RuntimeError on a
\* repository that is not initialized, ValueError on a name that is not
\* suitable; heads.create_branch then raises on a name that exists and
\* writes the branch record otherwise
Repository_create_branch(branch_name, base_commit) ==
    /\ Cardinality(DOMAIN local.branchenv) < MaxBranches
    /\ LET raised ==
              IF ~local.repo_is_initialized THEN "RuntimeError"
              ELSE IF ~is_suitable_user_key(branch_name) THEN "ValueError"
              ELSE IF branch_name \in get_branch_names(local.branchenv)
              THEN "ValueError"
              ELSE ""
       IN  local' = [local EXCEPT
              !.branchenv = IF raised = ""
                            THEN create_branch(local.branchenv, branch_name, base_commit)
                            ELSE local.branchenv,
              !.accessed = local.repo_is_initialized
                              /\ is_suitable_user_key(branch_name),
              !.outcome = [NoBranches.outcome EXCEPT
                              !.op = "create_branch", !.branch_name = branch_name,
                              !.base_commit = base_commit, !.raised = raised]]
    /\ UNCHANGED <<serverVars, clientVars, lockVars, metaVars>>

\* What a call leaves in the repository once __verify_repo_initialized has
\* run: RuntimeError and nothing read on a repository that is not
\* initialized, else what the body of the call does to the stores
Verified(op, raised, benv, lock_free) ==
    IF ~local.repo_is_initialized
    THEN [local EXCEPT !.accessed = FALSE,
                       !.outcome = [NoBranches.outcome EXCEPT
                                       !.op = op, !.raised = "RuntimeError"]]
    ELSE [local EXCEPT !.accessed = TRUE,
                       !.branchenv = benv,
                       !.lock_free = lock_free,
                       !.outcome = [NoBranches.outcome EXCEPT
                                       !.op = op, !.raised = raised]]

\* variant: checkout opens the stores without verifying the repository
Repository_checkout_unverified(write) ==
    /\ local' = [local EXCEPT
                    !.accessed = TRUE,
                    !.lock_free = IF write THEN FALSE ELSE local.lock_free,
                    !.outcome = [NoBranches.outcome EXCEPT
                                    !.op = "checkout",
                                    !.raised = IF write /\ ~local.lock_free
                                               THEN "PermissionError" ELSE ""]]
    /\ UNCHANGED <<serverVars, clientVars, lockVars, metaVars>>

\* Repository.checkout(write): a write checkout takes the writer lock and
\* fails when it is held; a read checkout takes nothing
Repository_checkout(write) ==
    /\ local' = Verified("checkout",
                         IF write /\ ~local.lock_free THEN "PermissionError" ELSE "",
                         local.branchenv,
                         IF write THEN FALSE ELSE local.lock_free)
    /\ UNCHANGED <<serverVars, clientVars, lockVars, metaVars>>

\* Repository.log and Repository.summary: read the history and the records
Repository_log ==
    /\ local' = Verified("log", "", local.branchenv, local.lock_free)
    /\ UNCHANGED <<serverVars, clientVars, lockVars, metaVars>>

Repository_summary ==
    /\ local' = Verified("summary", "", local.branchenv, local.lock_free)
    /\ UNCHANGED <<serverVars, clientVars, lockVars, metaVars>>

\* Repository.merge(message, master_branch, dev_branch): the head of the
\* master branch moves to commit_hash, the commit the merge selects
Repository_merge(master_branch, dev_branch, commit_hash) ==
    /\ local' = IF {master_branch, dev_branch} \subseteq get_branch_names(local.branchenv)
                THEN Verified("merge", "",
                              set_branch_head_commit(local.branchenv, master_branch,
                                                     commit_hash),
                              local.lock_free)
                ELSE Verified("merge", "ValueError", local.branchenv, local.lock_free)
    /\ UNCHANGED <<serverVars, clientVars, lockVars, metaVars>>

Repository_list_branches ==
    /\ local' = Verified("list_branches", "", local.branchenv, local.lock_free)
    /\ UNCHANGED <<serverVars, clientVars, lockVars, metaVars>>

\* Repository.force_release_writer_lock: the lock is set free
Repository_force_release_writer_lock ==
    /\ local' = Verified("force_release_writer_lock", "", local.branchenv, TRUE)
    /\ UNCHANGED <<serverVars, clientVars, lockVars, metaVars>>

\* Repository.writer_lock_held: a property that reads the lock
Repository_writer_lock_held ==
    /\ local' = Verified("writer_lock_held", "", local.branchenv, local.lock_free)
    /\ UNCHANGED <<serverVars, clientVars, lockVars, metaVars>>

----------------------------------------------------------------------------
(* Repository.clone                                                         *)

\* 'master', the branch that clone fetches and sets
master == <<"m", "a", "s", "t", "e", "r">>

\* the names under which Remotes.fetch('origin', 'master') may record the
\* head it fetched, and which it returns: the branch itself or its
\* remote-tracking name
FetchedBranchNames == {master, <<"o", "r", "i", "g", "i", "n", "/">> \o master}

\* a sample put through a writer checkout: a record enters the staging area
put_sample(k) ==
    /\ local.repo_is_initialized
    /\ ~local.lock_free
    /\ local' = [local EXCEPT !.stageenv = @ \cup {k},
                              !.accessed = TRUE,
                              !.outcome = [NoBranches.outcome EXCEPT !.op = "put_sample"]]
    /\ UNCHANGED <<serverVars, clientVars, lockVars, metaVars>>

\* Environments._init_repo: refuses a directory that holds a repository
\* unless remove_old, which removes it; then sets up empty environments
init_repo(remove_old) ==
    IF local.repo_is_initialized /\ ~remove_old
    THEN [local EXCEPT !.accessed = FALSE,
                       !.outcome = [NoBranches.outcome EXCEPT !.raised = "OSError"]]
    ELSE [NoBranches EXCEPT !.repo_is_initialized = TRUE, !.accessed = TRUE]

\* what clone does once the head of origin's master is fetched under the
\* name branch: the head becomes that of 'master', a writer checkout of
\* 'master' takes the lock, resets the staging area and, with closed,
\* releases the lock
Cloned(r, branch, fetched, closed) ==
    LET benv == set_branch_head_commit(r.branchenv, branch, fetched)
        HEAD == get_branch_head_commit(benv, branch)
    IN  [r EXCEPT !.branchenv = set_branch_head_commit(benv, master, HEAD),
                  !.stageenv = {},
                  !.lock_free = closed]

\* variant: the writer checkout of clone is never closed
CloneKeepsCheckout(r, branch, fetched) == Cloned(r, branch, fetched, FALSE)

CloneResult(r, branch, fetched) == Cloned(r, branch, fetched, TRUE)

\* Repository.clone(user_name, user_email, remote_address, remove_old):
\* init, remote add, fetch of origin's master (a FetchBranchRecord call that
\* ends the fetch when the server has no such branch), then the head, the
\* checkout, the reset and the close
Repository_clone(remove_old) ==
    LET r == init_repo(remove_old)
        out(raised) == [NoBranches.outcome EXCEPT !.op = "clone",
                                                  !.remove_old = remove_old,
                                                  !.raised = raised]
    IN  IF r.outcome.raised # ""
        THEN /\ local' = [r EXCEPT !.outcome = out(r.outcome.raised)]
             /\ UNCHANGED <<serverVars, clientVars, lockVars, metaVars>>
        ELSE /\ FetchBranchRecord("master")
             /\ \E branch \in FetchedBranchNames :
                   local' = IF last'.code = OK
                            THEN [CloneResult(r, branch, last'.stream[1])
                                     EXCEPT !.outcome = out("")]
                            ELSE [r EXCEPT !.outcome = out("ValueError")]

----------------------------------------------------------------------------
(* records.parsing.generate_sample_name                                     *)
(* The clock counts ticks of 10^-SubsecWidth seconds, the resolution of the *)
(* performance counter; the module pads the fraction to the same width.     *)

\* s.rjust(width, '0') and s.ljust(width, '0')
rjust(s, width) ==
    IF Len(s) >= width THEN s ELSE [i \in 1..(width - Len(s)) |-> "0"] \o s
ljust(s, width) ==
    IF Len(s) >= width THEN s ELSE s \o [i \in 1..(width - Len(s)) |-> "0"]

\* cycle_list = [str(c).rjust(4, '0') for c in range(9_999)]: every entry has
\* the width of the largest
cycle_list ==
    [i \in 1..CycleLen |-> rjust(str_of_int(i - 1), Len(str_of_int(CycleLen - 1)))]

RECURSIVE rstrip0(_)
rstrip0(s) ==
    IF s = <<>> THEN <<"0">>
    ELSE IF s[Len(s)] = "0" THEN rstrip0(SubSeq(s, 1, Len(s) - 1)) ELSE s

\* str(perf_counter()).split('.'): the digits of the whole seconds, and the
\* digits of the fraction without trailing zeros ("0" for a whole number)
perf_counter_str(clock) ==
    [sec |-> str_of_int(clock \div (10 ^ SubsecWidth)),
     subsec |-> rstrip0(rjust(str_of_int(clock % (10 ^ SubsecWidth)), SubsecWidth))]

\* the module before it is imported
NoNames == [seed |-> <<>>, imported |-> FALSE, next |-> 1, clock |-> 0, names |-> <<>>]

\* import of the module: NAME_CYCLER at its first entry, RANDOM_NAME_SEED
\* drawn (rjust(0, '0') pads nothing), the clock at any reading
import_parsing(seed, clock) ==
    /\ ~sampler.imported
    /\ sampler' = [NoNames EXCEPT !.seed = str_of_int(seed), !.imported = TRUE,
                                  !.clock = clock]
    /\ UNCHANGED <<serverVars, clientVars, lockVars, metaVars>>

\* variant: no sleep at the start of a cycle
generate_sample_name_no_sleep(elapsed) ==
    /\ sampler.imported
    /\ Len(sampler.names) < MaxCalls
    /\ LET ncycle == cycle_list[sampler.next]
           now == sampler.clock + elapsed
           t == perf_counter_str(now)
           name == sampler.seed \o rjust(t.sec, SecWidth)
                       \o ljust(t.subsec, SubsecWidth) \o ncycle
       IN  sampler' = [sampler EXCEPT !.next = (sampler.next % CycleLen) + 1,
                                      !.clock = now,
                                      !.names = Append(sampler.names, name)]
    /\ UNCHANGED <<serverVars, clientVars, lockVars, metaVars>>

\* generate_sample_name(), called `elapsed` ticks after the last reading of
\* the clock: the next entry of NAME_CYCLER, a sleep when it is the first
\* entry, then the reading of the clock
generate_sample_name(elapsed) ==
    /\ sampler.imported
    /\ Len(sampler.names) < MaxCalls
    /\ LET ncycle == cycle_list[sampler.next]
           slept == IF ncycle = cycle_list[1] THEN SleepTicks ELSE 0
           now == sampler.clock + elapsed + slept
           t == perf_counter_str(now)
           name == sampler.seed \o rjust(t.sec, SecWidth)
                       \o ljust(t.subsec, SubsecWidth) \o ncycle
       IN  sampler' = [sampler EXCEPT !.next = (sampler.next % CycleLen) + 1,
                                      !.clock = now,
                                      !.names = Append(sampler.names, name)]
    /\ UNCHANGED <<serverVars, clientVars, lockVars, metaVars>>

----------------------------------------------------------------------------
(* Inputs                                                                   *)

SeqsUpTo(S, n) == UNION {[1..k -> S] : k \in 1..n}

\* names as users give them: a letter, a digit, a dot and the key separator
NameChars == {"a", "0", ".", ":"}
Names == SeqsUpTo(NameChars, MaxName)
\* record lists of a commit: pairs of key bytes and value bytes, in any
\* order and with keys that repeat
RefPairs ==
    {<<encode(k), encode(v)>> : k \in {<<"a">>, <<"a", "b">>, <<"b">>},
                                v \in {<<>>, <<"0">>}}
RefLists == {<<>>} \cup SeqsUpTo(RefPairs, MaxPairs)
\* commit digests: strings of hexadecimal digits
HexDigests == SeqsUpTo({"0", "a", "f"}, MaxName)
\* dataset names pass the check of the character class: no separator
DatasetNames == SeqsUpTo(NameChars \ {":"}, MaxName)
\* ticks that pass between two readings of the clock
Elapsed == {0, 1, 9, 90, 900}
\* records that a writer checkout stages
StagedKeys == {"k1", "k2"}
\* branch names as users give them: of the class and not
BranchNameInputs == {<<>>} \cup SeqsUpTo({"a", "-", ":", " "}, MaxName)

\* a digest that the bytes do not hash to
WrongDigest(b) == blake2b((b + 1) % 3)

\* batches of tensors of one schema, each declared under its own digest or a
\* wrong one
Batches ==
    SeqsUpTo({t \in TensorRecords :
                 /\ t.schema = "s1"
                 /\ t.digest \in {blake2b(t.data), WrongDigest(t.data)}}, MaxBatch)

\* batches of one tensor declared under its own digest
PlainBatches ==
    {<<t>> : t \in {x \in TensorRecords : x.digest = blake2b(x.data) /\ x.schema = "s1"}}

Wants == SeqsUpTo(TensorDigests, MaxWant)

Init ==
    /\ branchenv = <<>>
    /\ refenv = <<>>
    /\ hashenv = <<>>
    /\ schemaenv = <<>>
    /\ labelenv = <<>>
    /\ remoteData = {}
    /\ last = Reply("none", OK)
    /\ cWant = <<>>
    /\ cGot = <<>>
    /\ cPc = "idle"
    /\ wlock = repo_writer_lock_sentinal_db_val
    /\ co = [p \in Callers |-> NoCheckout]
    /\ repo = [r \in Repos |-> NoStores]
    /\ sync = [r \in Repos |-> Idle]
    /\ readers = 0
    /\ calls = [t \in Workers |-> NoCall]
    /\ codec = NoCodec
    /\ sampler = NoNames
    /\ local = NoBranches

\* The branch and commit RPCs of the server, with plain data pushes
Next ==
    \/ \E b \in BranchNames : FetchBranchRecord(b) /\ UNCHANGED restVars
    \/ \E b \in BranchNames, c \in Commits : PushBranchRecord(b, c) /\ UNCHANGED restVars
    \/ \E c \in Commits, r \in CommitRecords :
          \E n \in 1..Len(chunk_bytes(r.ref)) : PushCommit(c, r, n) /\ UNCHANGED restVars
    \/ \E b \in PlainBatches : PushData(b, NChunks(b), Len(PackBatch(b)))
          /\ UNCHANGED restVars

Spec == Init /\ [][Next]_vars

\* The data RPCs: pushes of every batch, on streams cut short and on a wrong
\* declared size, and fetches of one tensor
NextData ==
    \/ \E d \in TensorDigests : FetchData(<<d>>)
          /\ UNCHANGED <<clientVars, lockVars, metaVars, restVars>>
    \/ \E b \in Batches : \E n \in 1..NChunks(b) : PushData(b, n, Len(PackBatch(b)))
          /\ UNCHANGED restVars
    \/ \E b \in Batches : PushData(b, NChunks(b), Len(PackBatch(b)) + 1)
          /\ UNCHANGED restVars

SpecData == Init /\ [][NextData]_vars

\* Fetches of tensors that run to their end or are cancelled by the client
NextCancel ==
    \/ \E b \in PlainBatches : PushData(b, NChunks(b), Len(PackBatch(b)))
          /\ UNCHANGED restVars
    \/ \E w \in Wants : FetchData(w)
          /\ UNCHANGED <<clientVars, lockVars, metaVars, restVars>>
    \/ \E w \in Wants : \E k \in 1..(4 * MaxWant + 2) : FetchDataCancelled(w, k)
          /\ UNCHANGED <<clientVars, lockVars, metaVars, peerVars, butReaders>>

SpecCancel == Init /\ [][NextCancel]_vars

\* Records of every class encoded and decoded
NextCodec ==
    \/ \E class \in DOMAIN KeyPrefix, name \in Names :
          KeyRoundTrip(class, name) /\ UNCHANGED <<peerVars, butCodec>>
    \/ \E dset_name \in DatasetNames, data_name \in Names :
          DataRecordKeyRoundTrip(dset_name, data_name) /\ UNCHANGED <<peerVars, butCodec>>
    \/ \E class \in DOMAIN ValueShape :
       \E raw_val \in IF ValueShape[class] = "int" THEN 0..MaxCount ELSE Names :
          ValueRoundTrip(class, raw_val) /\ UNCHANGED <<peerVars, butCodec>>
    \/ \E master_ancestor \in HexDigests \cup {<<>>},
             dev_ancestor \in HexDigests \cup {<<>>} :
          CommitParentRoundTrip(master_ancestor, dev_ancestor, FALSE)
          /\ UNCHANGED <<peerVars, butCodec>>
    \/ \E master_ancestor \in HexDigests, dev_ancestor \in HexDigests :
          CommitParentRoundTrip(master_ancestor, dev_ancestor, TRUE)
          /\ UNCHANGED <<peerVars, butCodec>>
    \/ \E commit_db_key_val_list \in RefLists :
          CommitRefRoundTrip(commit_db_key_val_list) /\ UNCHANGED <<peerVars, butCodec>>

SpecCodec == Init /\ [][NextCodec]_vars

\* keys as a store may hold them: with and without the prefix of the dataset
\* records, with no, one and several separators
StoredKeys == {encode(k) : k \in SeqsUpTo({"a", ":"}, MaxKey)}
\* values as the branch store returns them: the bytes of a digest, or nothing
StoredHeads == {None} \cup {encode(h) : h \in HexDigests \cup {<<>>}}

\* Decoders applied to what a store returns
NextDecode ==
    \/ \E db_val \in StoredHeads :
          DecodeBranchHeadVal(db_val) /\ UNCHANGED <<peerVars, butCodec>>
    \/ \E db_key \in StoredKeys :
          DecodeDataRecordKey(db_key) /\ UNCHANGED <<peerVars, butCodec>>

SpecDecode == Init /\ [][NextDecode]_vars

\* names of datasets, samples and metadata: of the class, and with the key
\* separator in them
KeyNames == SeqsUpTo({"a", ":"}, MaxName)

\* Keys of the records of one store encoded side by side
NextKeys ==
    \/ \E dset_name \in KeyNames, data_name \in KeyNames,
             other_dset \in KeyNames, other_name \in KeyNames :
          EncodeKeys(dset_name, data_name, "data_record", <<other_dset, other_name>>)
          /\ UNCHANGED <<peerVars, butCodec>>
    \/ \E dset_name \in KeyNames, data_name \in KeyNames, name \in KeyNames,
             class \in {"dataset_record_count", "dataset_record_schema",
                        "metadata_record"} :
          EncodeKeys(dset_name, data_name, class, <<name>>)
          /\ UNCHANGED <<peerVars, butCodec>>
    \/ \E dset_name \in KeyNames, data_name \in KeyNames :
          EncodeKeys(dset_name, data_name, "dataset_total_count", <<>>)
          /\ UNCHANGED <<peerVars, butCodec>>

SpecKeys == Init /\ [][NextKeys]_vars

\* batches of tensors declared under their own digests, of either schema
MixedBatches ==
    SeqsUpTo({t \in TensorRecords : t.digest = blake2b(t.data)}, MaxBatch)

\* Pushes of batches that hold tensors of different schemas
NextSchemas ==
    \E b \in MixedBatches : PushData(b, NChunks(b), Len(PackBatch(b)))
          /\ UNCHANGED restVars

SpecSchemas == Init /\ [][NextSchemas]_vars

\* Sample names generated by one process
NextNames ==
    \/ \E seed \in {7, 42}, clock \in {0, 5} :
          import_parsing(seed, clock) /\ UNCHANGED <<peerVars, butSampler>>
    \/ \E elapsed \in Elapsed :
          generate_sample_name(elapsed) /\ UNCHANGED <<peerVars, butSampler>>

SpecNames == Init /\ [][NextNames]_vars

\* Branches created in a local repository
NextBranch ==
    \/ Repository_init /\ UNCHANGED <<peerVars, butLocal>>
    \/ \E branch_name \in BranchNameInputs, base_commit \in Commits :
          Repository_create_branch(branch_name, base_commit)
          /\ UNCHANGED <<peerVars, butLocal>>
    \/ \E write \in BOOLEAN : Repository_checkout(write) /\ UNCHANGED <<peerVars, butLocal>>
    \/ Repository_log /\ UNCHANGED <<peerVars, butLocal>>
    \/ Repository_summary /\ UNCHANGED <<peerVars, butLocal>>
    \/ \E master_branch \in DOMAIN local.branchenv \cup {<<"a">>},
             dev_branch \in DOMAIN local.branchenv \cup {<<"a">>},
             commit_hash \in Commits :
          Repository_merge(master_branch, dev_branch, commit_hash)
          /\ UNCHANGED <<peerVars, butLocal>>
    \/ Repository_list_branches /\ UNCHANGED <<peerVars, butLocal>>
    \/ Repository_force_release_writer_lock /\ UNCHANGED <<peerVars, butLocal>>
    \/ Repository_writer_lock_held /\ UNCHANGED <<peerVars, butLocal>>

SpecBranch == Init /\ [][NextBranch]_vars

\* Clones of a server's master into a directory that may hold a repository
NextClone ==
    \/ \E b \in BranchNames, c \in Commits : PushBranchRecord(b, c) /\ UNCHANGED restVars
    \/ Repository_init /\ UNCHANGED <<peerVars, butLocal>>
    \/ \E base_commit \in Commits :
          Repository_create_branch(<<"a">>, base_commit) /\ UNCHANGED <<peerVars, butLocal>>
    \/ Repository_checkout(TRUE) /\ UNCHANGED <<peerVars, butLocal>>
    \/ \E k \in StagedKeys : put_sample(k) /\ UNCHANGED <<peerVars, butLocal>>
    \/ \E remove_old \in BOOLEAN :
          Repository_clone(remove_old) /\ UNCHANGED <<peerVars, butLocal>>

SpecClone == Init /\ [][NextClone]_vars

\* PushBranchRecord calls that run on the threads of the pool at once
NextWorkers ==
    \/ \E t \in Workers, b \in BranchNames, c \in Commits :
          PushBranchRecordRead(t, b, c) /\ UNCHANGED <<peerVars, butCalls>>
    \/ \E t \in Workers : PushBranchRecordWrite(t) /\ UNCHANGED <<peerVars, butCalls>>

SpecWorkers == Init /\ [][NextWorkers]_vars

\* A client that fetches tensors from a server that receives plain pushes
NextFetch ==
    \/ \E b \in PlainBatches : PushData(b, NChunks(b), Len(PackBatch(b)))
          /\ UNCHANGED restVars
    \/ \E w \in Wants : ClientStart(w) /\ UNCHANGED restVars
    \/ ClientFetchRound

SpecFetch == Init /\ [][NextFetch]_vars /\ WF_vars(ClientFetchRound)

\* Write checkouts of one repository by concurrent callers
NextLock ==
    \/ \E p \in Callers : checkout(p) /\ UNCHANGED restVars
    \/ \E p \in Callers : close(p) /\ UNCHANGED restVars
    \/ force_release_writer_lock /\ UNCHANGED restVars

SpecLock == Init /\ [][NextLock]_vars

\* The branch and commit RPCs with the questions a peer asks before a transfer
NextSync ==
    \/ \E b \in BranchNames, c \in Commits : PushBranchRecord(b, c) /\ UNCHANGED restVars
    \/ \E c \in Commits, r \in CommitRecords :
          \E n \in 1..Len(chunk_bytes(r.ref)) : PushCommit(c, r, n) /\ UNCHANGED restVars
    \/ \E b \in BranchNames, cs \in CommitLists : FetchFindMissingCommits(b, cs)
          /\ UNCHANGED restVars
    \/ \E b \in BranchNames, h \in Commits, cs \in CommitLists :
          PushFindMissingCommits(b, h, cs) /\ UNCHANGED restVars

SpecSync == Init /\ [][NextSync]_vars

\* label values as a client sends them: compressed, under their own digest or
\* a wrong one, and a blob that does not decompress
LabelPushes ==
    {MetaRequest(d, compress(<<v>>)) :
        v \in LabelVals, d \in {blake2b(0), blake2b(1), blake2b(2)}}
    \cup {MetaRequest(blake2b(0), <<>>)}

\* commits as a client that holds them sends them
HeldCommits == {c \in Commits : \E r \in CommitRecords : CommitHash(r.parent, r.ref, r.spec) = c}
CommitRecordOf(c) == CHOOSE r \in CommitRecords : CommitHash(r.parent, r.ref, r.spec) = c

\* The schema and label RPCs of a server that receives commits
NextMeta ==
    \/ \E c \in HeldCommits :
          PushCommit(c, CommitRecordOf(c), Len(chunk_bytes(CommitRecordOf(c).ref)))
          /\ UNCHANGED restVars
    \/ \E d \in SchemaDigests, v \in SchemaBlobs : PushSchema(d, v) /\ UNCHANGED restVars
    \/ \E l \in LabelPushes : PushLabel(l.digest, l.blob) /\ UNCHANGED restVars
    \/ \E d \in SchemaDigests : FetchSchema(d) /\ UNCHANGED restVars
    \/ \E d \in TensorDigests : FetchLabel(d) /\ UNCHANGED restVars
    \/ \E c \in Commits, cs \in SchemaLists : FetchFindMissingSchemas(c, cs)
          /\ UNCHANGED restVars
    \/ \E c \in Commits, cs \in SchemaLists : PushFindMissingSchemas(c, cs)
          /\ UNCHANGED restVars
    \/ \E c \in Commits, cs \in HashLists : FetchFindMissingLabels(c, cs)
          /\ UNCHANGED restVars
    \/ \E c \in Commits, cs \in HashLists : PushFindMissingLabels(c, cs)
          /\ UNCHANGED restVars

\* The hash-record RPCs of a server that receives commits and plain data
NextHash ==
    \/ \E c \in HeldCommits :
          PushCommit(c, CommitRecordOf(c), Len(chunk_bytes(CommitRecordOf(c).ref)))
          /\ UNCHANGED restVars
    \/ \E b \in PlainBatches : PushData(b, NChunks(b), Len(PackBatch(b)))
          /\ UNCHANGED restVars
    \/ \E c \in Commits, cs \in HashLists : FetchFindMissingHashRecords(c, cs)
          /\ UNCHANGED restVars
    \/ \E c \in Commits, cs \in HashLists : PushFindMissingHashRecords(c, cs)
          /\ UNCHANGED restVars

SpecHash == Init /\ [][NextHash]_vars

SpecMeta == Init /\ [][NextMeta]_vars

\* Every RPC that reads, on a server that a few pushes fill
NextReads ==
    \/ \E c \in Commits : PushBranchRecord("master", c) /\ UNCHANGED restVars
    \/ \E c \in HeldCommits :
          PushCommit(c, CommitRecordOf(c), Len(chunk_bytes(CommitRecordOf(c).ref)))
          /\ UNCHANGED restVars
    \/ \E b \in {x \in PlainBatches : x[1].data = 0} :
          PushData(b, NChunks(b), Len(PackBatch(b))) /\ UNCHANGED restVars
    \/ PushSchema("s1", 0) /\ UNCHANGED restVars
    \/ PushLabel(blake2b(0), compress(<<0>>)) /\ UNCHANGED restVars
    \/ \E b \in BranchNames : FetchBranchRecord(b) /\ UNCHANGED restVars
    \/ \E c \in Commits : FetchCommit(c) /\ UNCHANGED restVars
    \/ \E d \in SchemaDigests : FetchSchema(d) /\ UNCHANGED restVars
    \/ \E w \in SeqsUpTo({"d0", "d1"}, 2) : FetchData(w)
          /\ UNCHANGED <<clientVars, lockVars, metaVars, restVars>>
    \/ \E d \in TensorDigests : FetchLabel(d) /\ UNCHANGED restVars
    \/ \E b \in BranchNames, cs \in CommitLists : FetchFindMissingCommits(b, cs)
          /\ UNCHANGED restVars
    \/ \E b \in BranchNames, h \in Commits, cs \in CommitLists :
          PushFindMissingCommits(b, h, cs) /\ UNCHANGED restVars
    \/ \E c \in Commits, cs \in SchemaLists : FetchFindMissingSchemas(c, cs)
          /\ UNCHANGED restVars
    \/ \E c \in Commits, cs \in SchemaLists : PushFindMissingSchemas(c, cs)
          /\ UNCHANGED restVars
    \/ \E c \in Commits, cs \in HashLists : FetchFindMissingHashRecords(c, cs)
          /\ UNCHANGED restVars
    \/ \E c \in Commits, cs \in HashLists : PushFindMissingHashRecords(c, cs)
          /\ UNCHANGED restVars
    \/ \E c \in Commits, cs \in HashLists : FetchFindMissingLabels(c, cs)
          /\ UNCHANGED restVars
    \/ \E c \in Commits, cs \in HashLists : PushFindMissingLabels(c, cs)
          /\ UNCHANGED restVars

SpecReads == Init /\ [][NextReads]_vars

----------------------------------------------------------------------------
(* Commit, push and fetch of the client repositories                        *)

HeadOf(r) == IF "master" \in DOMAIN r.branchenv THEN r.branchenv["master"] ELSE ""

\* Repository "A" commits: the records of the next commit enter its stores
\* and its master moves to it
LocalCommit ==
    /\ sync["A"].pc \in {"idle", "done"}
    /\ HeadOf(repo["A"]) # "c2"
    /\ LET r == repo["A"]
           c == IF HeadOf(r) = "" THEN "c1" ELSE "c2"
           rec == CommitRecordOf(c)
           recs == RefRecords(rec.ref)
       IN  repo' = [repo EXCEPT !["A"] =
                      [branchenv |-> set_branch_head_commit(r.branchenv, "master", c),
                       refenv |-> CW_commit(r.refenv, c, rec.parent, rec.spec, rec.ref).refenv,
                       hashenv |-> [d \in DOMAIN recs.data |->
                                      [schema |-> recs.data[d], data |-> DataOf(d)]]
                                   @@ r.hashenv,
                       schemaenv |-> [x \in recs.schemas |-> SchemaBlobOf(x)]
                                     @@ r.schemaenv,
                       labelenv |-> [d \in recs.labels |-> <<DataOf(d)>>] @@ r.labelenv]]
    /\ sync' = [sync EXCEPT !["A"].clean = FALSE, !["B"].clean = FALSE]
    /\ UNCHANGED <<serverVars, clientVars, lockVars, metaVars>>

\* A push begins: the client asks which commits of its history are missing
PushStart ==
    /\ sync["A"].pc \in {"idle", "done"}
    /\ HeadOf(repo["A"]) # ""
    /\ LET head == HeadOf(repo["A"])
       IN  /\ PushFindMissingCommits("master", head,
                                     history_order(repo["A"].refenv, head))
           /\ sync' = [sync EXCEPT !["A"] =
                 [pc |-> "pushing",
                  queue |-> Plan(<<"findSchemas", "findData", "findLabels", "commit">>,
                                 InOrder(CommitOrder, last'.stream[1].commits))
                            \o <<Task("branch", head)>>,
                  head |-> head, want |-> <<>>, clean |-> FALSE]]
    /\ UNCHANGED repo

\* The next call of the push: per missing commit the missing schemas, data
\* and labels, then the commit; at the end the branch record
PushStep ==
    /\ sync["A"].pc = "pushing"
    /\ LET r == repo["A"]
           t == Head(sync["A"].queue)
           rest == Tail(sync["A"].queue)
           Continue(q) == sync' = [sync EXCEPT !["A"].queue = q]
       IN  \/ /\ t.k = "findSchemas"
              /\ PushFindMissingSchemas(
                    t.x, InOrder(SchemaOrder, unpack_commit_ref(r.refenv, t.x).records.schemas))
              /\ Continue(Tasks("schema", InOrder(SchemaOrder, last'.stream[1].hashs))
                          \o rest)
           \/ /\ t.k = "schema"
              /\ PushSchema(t.x, r.schemaenv[t.x])
              /\ Continue(rest)
           \/ /\ t.k = "findData"
              /\ PushFindMissingHashRecords(
                    t.x, InOrder(DigestOrder,
                                 DOMAIN unpack_commit_ref(r.refenv, t.x).records.data))
              /\ Continue(Tasks("data",
                                InOrder(DigestOrder,
                                        {item[1] : item \in last'.stream[1].hashs}))
                          \o rest)
           \/ /\ t.k = "data"
              /\ LET batch == <<[digest |-> t.x, schema |-> r.hashenv[t.x].schema,
                                 data |-> r.hashenv[t.x].data]>>
                 IN  PushData(batch, NChunks(batch), Len(PackBatch(batch)))
              /\ Continue(rest)
           \/ /\ t.k = "findLabels"
              /\ PushFindMissingLabels(
                    t.x, InOrder(DigestOrder, unpack_commit_ref(r.refenv, t.x).records.labels))
              /\ Continue(Tasks("label",
                                InOrder(DigestOrder,
                                        {item[1] : item \in last'.stream[1].hashs}))
                          \o rest)
           \/ /\ t.k = "label"
              /\ PushLabel(t.x, compress(r.labelenv[t.x]))
              /\ Continue(rest)
           \/ /\ t.k = "commit"
              /\ LET rec == [parent |-> r.refenv[commitParentKey(t.x)],
                             ref |-> r.refenv[commitRefKey(t.x)],
                             spec |-> r.refenv[commitSpecKey(t.x)]]
                 IN  PushCommit(t.x, rec, Len(chunk_bytes(rec.ref)))
              /\ Continue(rest)
           \/ /\ t.k = "branch"
              /\ PushBranchRecord("master", t.x)
              /\ sync' = [sync EXCEPT !["A"] =
                             [Idle EXCEPT !.pc = "done", !.head = t.x, !.clean = TRUE]]
    /\ UNCHANGED repo

\* A fetch begins: the client asks for the head of the branch
FetchStart ==
    /\ sync["B"].pc \in {"idle", "done", "failed"}
    /\ FetchBranchRecord("master")
    /\ sync' = [sync EXCEPT !["B"] =
          IF last'.code = OK
          THEN [pc |-> "fetching", queue |-> <<Task("findCommits", "master")>>,
                head |-> last'.stream[1], want |-> <<>>, clean |-> sync["A"].clean]
          ELSE [Idle EXCEPT !.pc = "failed"]]
    /\ UNCHANGED repo

\* the commit of a FetchCommit reply stream as the client reassembles it
RecievedCommit(stream) ==
    [parent |-> stream[1].parent, spec |-> stream[1].spec,
     ref |-> Reassemble(stream[1].total_byte_size,
                        [i \in 1..Len(stream) |-> stream[i].ref])]

\* The next call of the fetch: the missing commits, per commit its record,
\* then the missing schemas, data (asked again while the server answers
\* RESOURCE_EXHAUSTED) and labels; at the end the head of the branch
FetchStep ==
    /\ sync["B"].pc = "fetching"
    /\ LET r == repo["B"]
           t == Head(sync["B"].queue)
           rest == Tail(sync["B"].queue)
           Continue(q) == sync' = [sync EXCEPT !["B"].queue = q]
           Fail == sync' = [sync EXCEPT !["B"] =
                            [Idle EXCEPT !.pc = "failed", !.clean = sync["B"].clean]]
       IN  \/ /\ t.k = "findCommits"
              /\ FetchFindMissingCommits(t.x, InOrder(CommitOrder, list_all_commits(r.refenv)))
              /\ IF last'.raised \/ last'.code # OK THEN Fail
                 ELSE Continue(
                         Plan(<<"fetchCommit", "findSchemas", "findData", "findLabels">>,
                              InOrder(CommitOrder, last'.stream[1].commits))
                         \o <<Task("head", sync["B"].head)>>)
              /\ UNCHANGED repo
           \/ /\ t.k = "fetchCommit"
              /\ FetchCommit(t.x)
              /\ IF last'.raised \/ last'.code # OK
                 THEN Fail /\ UNCHANGED repo
                 ELSE LET rec == RecievedCommit(last'.stream)
                          res == CW_commit(r.refenv, t.x, rec.parent, rec.spec, rec.ref)
                      IN  IF res.raised THEN Fail /\ UNCHANGED repo
                          ELSE /\ Continue(rest)
                               /\ repo' = [repo EXCEPT !["B"].refenv = res.refenv]
           \/ /\ t.k = "findSchemas"
              /\ FetchFindMissingSchemas(t.x, InOrder(SchemaOrder, DOMAIN r.schemaenv))
              /\ IF last'.raised THEN Fail
                 ELSE Continue(Tasks("schema", InOrder(SchemaOrder, last'.stream[1].hashs))
                               \o rest)
              /\ UNCHANGED repo
           \/ /\ t.k = "schema"
              /\ FetchSchema(t.x)
              /\ IF last'.code # OK THEN Fail /\ UNCHANGED repo
                 ELSE /\ Continue(rest)
                      /\ repo' = [repo EXCEPT !["B"].schemaenv =
                                    CW_schema(r.schemaenv, t.x, last'.stream[1].blob).schemaenv]
           \/ /\ t.k = "findData"
              /\ FetchFindMissingHashRecords(t.x, InOrder(DigestOrder, DOMAIN r.hashenv))
              /\ IF last'.raised THEN Fail
                 ELSE LET items == last'.stream[1].hashs
                          want == [d \in {item[1] : item \in items} |->
                                     (CHOOSE item \in items : item[1] = d)[2]]
                      IN  sync' = [sync EXCEPT
                                     !["B"].want = want,
                                     !["B"].queue = IF items = {} THEN rest
                                                    ELSE <<Task("data", t.x)>> \o rest]
              /\ UNCHANGED repo
           \/ /\ t.k = "data"
              /\ LET want == sync["B"].want
                     asked == InOrder(DigestOrder, DOMAIN want \ DOMAIN r.hashenv)
                 IN  /\ FetchData(asked)
                     /\ LET tensors == RecievedTensors(last'.stream)
                            got == [d \in {tensors[i].digest : i \in 1..Len(tensors)}
                                              \cap DOMAIN want |->
                                      [schema |-> want[d],
                                       data |-> tensors[CHOOSE i \in 1..Len(tensors) :
                                                           tensors[i].digest = d].data]]
                            henv == got @@ r.hashenv
                        IN  /\ repo' = [repo EXCEPT !["B"].hashenv = henv]
                            /\ IF DOMAIN want \subseteq DOMAIN henv
                               THEN sync' = [sync EXCEPT !["B"].queue = rest,
                                                         !["B"].want = <<>>]
                               ELSE IF last'.code = RESOURCE_EXHAUSTED
                               THEN UNCHANGED sync
                               ELSE Fail
              /\ UNCHANGED <<clientVars, lockVars, metaVars>>
           \/ /\ t.k = "findLabels"
              /\ FetchFindMissingLabels(t.x, InOrder(DigestOrder, DOMAIN r.labelenv))
              /\ IF last'.raised THEN Fail
                 ELSE Continue(Tasks("label",
                                     InOrder(DigestOrder,
                                             {item[1] : item \in last'.stream[1].hashs}))
                               \o rest)
              /\ UNCHANGED repo
           \/ /\ t.k = "label"
              /\ FetchLabel(t.x)
              /\ IF last'.code # OK \/ DecompressFails(last'.stream[1].blob)
                    \/ LabelHash(decompress(last'.stream[1].blob)) # t.x
                 THEN Fail /\ UNCHANGED repo
                 ELSE /\ Continue(rest)
                      /\ repo' = [repo EXCEPT !["B"].labelenv =
                            CW_label(r.labelenv, t.x,
                                     decompress(last'.stream[1].blob)).labelenv]
           \/ /\ t.k = "head"
              /\ repo' = [repo EXCEPT !["B"].branchenv =
                             set_branch_head_commit(r.branchenv, "master", t.x)]
              /\ sync' = [sync EXCEPT !["B"] =
                             [Idle EXCEPT !.pc = "done", !.head = t.x,
                                          !.clean = sync["B"].clean]]
              /\ UNCHANGED <<serverVars, clientVars, lockVars, metaVars>>

\* One repository commits and pushes master while another fetches it
NextPeers ==
    \/ LocalCommit /\ UNCHANGED procVars
    \/ PushStart /\ UNCHANGED procVars
    \/ PushStep /\ UNCHANGED procVars
    \/ FetchStart /\ UNCHANGED procVars
    \/ FetchStep /\ UNCHANGED procVars

SpecPeers == Init /\ [][NextPeers]_vars

----------------------------------------------------------------------------
(* Properties                                                               *)

\* C1: PushCommit for a commit digest already recorded in the ref store
\* writes nothing (the ref store with its parent, ref and spec values and
\* every other store stay as they were), does not move the staged payloads
\* and replies ALREADY_EXISTS; and after any PushCommit, the same PushCommit
\* again leaves the server as the first left it.
C1_PushCommitExistingIsNoOp ==
    [][\A c \in Commits, r \in CommitRecords :
         \A n \in 1..Len(chunk_bytes(r.ref)) :
           PushCommit(c, r, n) =>
             /\ commitRefKey(c) \in DOMAIN refenv =>
                  /\ refenv' = refenv
                  /\ remoteData' = remoteData
                  /\ <<branchenv, hashenv>>' = <<branchenv, hashenv>>
                  /\ ~last'.raised /\ last'.code = ALREADY_EXISTS
             /\ LET again == PushCommitResult(refenv', remoteData', c, r, n)
                IN  again.refenv = refenv' /\ again.remoteData = remoteData']_vars

\* a commit that exists was pushed again while payloads were staged
C1_Witness ==
    /\ last.op = "PushCommit" /\ last.code = ALREADY_EXISTS
    /\ remoteData # {}
    /\ refenv # <<>>

\* C4: PushBranchRecord(name, commit) creates an absent branch with head =
\* commit and replies OK; leaves the head of a branch whose head already is
\* commit unchanged and replies ALREADY_EXISTS; moves the head of a branch
\* with a different head to commit and replies OK.  No other branch is
\* created, removed or moved.
C4_PushBranchRecordCases ==
    [][\A b \in BranchNames, c \in Commits :
         PushBranchRecord(b, c) =>
           /\ b \notin DOMAIN branchenv =>
                /\ b \in DOMAIN branchenv' /\ branchenv'[b] = c
                /\ last'.code = OK
           /\ (b \in DOMAIN branchenv /\ branchenv[b] = c) =>
                /\ branchenv' = branchenv
                /\ last'.code = ALREADY_EXISTS
           /\ (b \in DOMAIN branchenv /\ branchenv[b] # c) =>
                /\ b \in DOMAIN branchenv' /\ branchenv'[b] = c
                /\ last'.code = OK
           /\ ~last'.raised
           /\ \A o \in BranchNames \ {b} :
                /\ o \in DOMAIN branchenv' <=> o \in DOMAIN branchenv
                /\ o \in DOMAIN branchenv => branchenv'[o] = branchenv[o]]_vars

\* a push with the current head was answered ALREADY_EXISTS while another
\* branch with a different head exists
C4_Witness ==
    /\ last.op = "PushBranchRecord" /\ last.code = ALREADY_EXISTS
    /\ DOMAIN branchenv = BranchNames
    /\ branchenv["master"] # branchenv["dev"]

\* C5: FetchBranchRecord of a branch name absent from the server replies
\* NOT_FOUND with no commit and leaves the branch store unchanged; of an
\* existing branch it replies OK with the branch's current head commit.
C5_FetchBranchRecordReply ==
    [][\A b \in BranchNames :
         FetchBranchRecord(b) =>
           /\ branchenv' = branchenv
           /\ ~last'.raised
           /\ IF b \in DOMAIN branchenv
              THEN last'.code = OK /\ last'.stream = <<branchenv[b]>>
              ELSE last'.code = NOT_FOUND /\ last'.stream = <<>>]_vars

\* an absent branch was asked for on a server that has another branch
C5_Witness ==
    /\ last.op = "FetchBranchRecord" /\ last.code = NOT_FOUND
    /\ branchenv # <<>>

\* C9: every branch head names a commit whose ref and spec records are in the
\* ref store.
C9_BranchHeadsExist ==
    \A b \in DOMAIN branchenv :
        /\ commitRefKey(branchenv[b]) \in DOMAIN refenv
        /\ commitSpecKey(branchenv[b]) \in DOMAIN refenv

\* C2: a PushData whose whole batch arrives with some tensor declared under a
\* digest its bytes do not hash to, wherever in the batch, is answered
\* DATA_LOSS, and the hash store and the staged set stay as they were: no
\* tensor of the batch is written, the correct ones before the bad one
\* included.
C2_MismatchRejectsWholeBatch ==
    [][(/\ last'.op = "PushData"
        /\ Complete(last'.req)
        /\ HasMismatch(last'.req.batch))
       => /\ ~last'.raised
          /\ last'.code = DATA_LOSS
          /\ hashenv' = hashenv
          /\ remoteData' = remoteData]_vars

\* a batch of a correct tensor followed by a bad one was rejected, and the
\* correct one is not in the hash store
C2_Witness ==
    /\ last.op = "PushData" /\ last.code = DATA_LOSS
    /\ Complete(last.req)
    /\ Len(last.req.batch) = 2
    /\ ~HasMismatch(<<last.req.batch[1]>>)
    /\ HasMismatch(<<last.req.batch[2]>>)
    /\ last.req.batch[1].digest \notin DOMAIN hashenv
    /\ hashenv # <<>>

\* C3: when a PushData has been rejected for a digest mismatch, the next
\* PushData, of the same tensors declared under their correct digests, is
\* answered OK and every one of the tensors is in the hash store after it.
C3_CorrectPushAfterRejection ==
    [][(/\ last.op = "PushData" /\ ~last.raised /\ last.code = DATA_LOSS
        /\ Complete(last.req) /\ HasMismatch(last.req.batch)
        /\ last'.op = "PushData"
        /\ Complete(last'.req)
        /\ last'.req.batch = Corrected(last.req.batch))
       => /\ ~last'.raised
          /\ last'.code = OK
          /\ \A i \in 1..Len(last'.req.batch) :
                LET t == last'.req.batch[i]
                IN  /\ t.digest \in DOMAIN hashenv'
                    /\ hashenv'[t.digest].data = t.data]_vars

\* the tensors of a rejected batch of two were pushed again under their
\* correct digests, answered OK and stored
C3_Witness ==
    /\ last.op = "PushData" /\ last.req.retry
    /\ Complete(last.req)
    /\ last.code = OK
    /\ Len(last.req.batch) = 2
    /\ \A i \in 1..2 : last.req.batch[i].digest \in DOMAIN hashenv

\* C8: a PushData stream that ends before every chunk of the declared
\* payload has arrived leaves the hash store and the staged set as they were.
C8_TruncatedPushWritesNothing ==
    [][(/\ last'.op = "PushData"
        /\ last'.req.nsent < NChunks(last'.req.batch))
       => /\ hashenv' = hashenv
          /\ remoteData' = remoteData]_vars

\* the bytes the tensors of the digests pack to
RECURSIVE PackedSize(_, _)
PackedSize(henv, digests) ==
    IF digests = <<>> THEN 0
    ELSE Len(PackTensor(Head(digests), henv[Head(digests)].data))
             + PackedSize(henv, Tail(digests))

AllPresent(henv, digests) == \A d \in Range(digests) : d \in DOMAIN henv

\* the replies of the stream that carry the marker
Markers(stream) ==
    {i \in 1..Len(stream) : stream[i].code = RESOURCE_EXHAUSTED}

\* C6: a FetchData call for tensors of the hash store that pack to more than
\* fetch_max_nbytes is answered with exactly one RESOURCE_EXHAUSTED reply;
\* and a client that asks again for the digests it has not received, while
\* every tensor it wants is on the server, eventually has received every
\* tensor it wants, with the bytes the server holds.
C6_OneMarkerAndRetryCompletes ==
    /\ [][ClientFetchRound =>
            LET asked == Remaining(cWant, cGot)
            IN  (/\ AllPresent(hashenv, asked)
                 /\ PackedSize(hashenv, asked) > FetchMaxNBytes)
                => Cardinality(Markers(last'.stream)) = 1]_vars
    /\ (cPc = "fetching" /\ AllPresent(hashenv, cWant))
         ~> (/\ cPc = "done"
             /\ \A d \in Range(cWant) :
                   d \in DOMAIN cGot /\ cGot[d] = hashenv[d].data)

\* a client that wanted more tensors than one reply may carry has them all,
\* the last of them from a reply without a marker
C6_Witness ==
    /\ cPc = "done"
    /\ AllPresent(hashenv, cWant)
    /\ PackedSize(hashenv, cWant) > FetchMaxNBytes
    /\ Cardinality(Range(cWant)) = 3
    /\ \A d \in Range(cWant) : d \in DOMAIN cGot /\ cGot[d] = hashenv[d].data
    /\ last.op = "FetchData" /\ last.code = OK

\* how many of the digests are packed when the budget is reached
BudgetPrefix(henv, digests) ==
    CHOOSE k \in 1..Len(digests) :
        /\ PackedSize(henv, SubSeq(digests, 1, k)) >= FetchMaxNBytes
        /\ \A j \in 1..(k - 1) :
              PackedSize(henv, SubSeq(digests, 1, j)) < FetchMaxNBytes

\* C7: in a FetchData reply stream that carries the RESOURCE_EXHAUSTED
\* marker, the marker is the last reply, every reply before it is a data
\* reply, and the data replies hold exactly the tensors packed until the
\* budget was reached, in the order they were asked for.
C7_DataBeforeMarkerMarkerLast ==
    [][(ClientFetchRound /\ Markers(last'.stream) # {}) =>
          LET asked == Remaining(cWant, cGot)
              s == last'.stream
              n == Len(s)
              sent == RecievedTensors(SubSeq(s, 1, n - 1))
              k == BudgetPrefix(hashenv, asked)
          IN  /\ s[n].code = RESOURCE_EXHAUSTED
              /\ s[n].raw_data = <<>>
              /\ \A i \in 1..(n - 1) : s[i].code = OK
              /\ Len(sent) = k
              /\ \A i \in 1..k :
                    /\ sent[i].digest = asked[i]
                    /\ sent[i].data = hashenv[asked[i]].data]_vars

\* a reply ended with the marker after the data of two tensors, and the
\* client still waits for a third
C7_Witness ==
    /\ last.op = "FetchData" /\ last.code = RESOURCE_EXHAUSTED
    /\ Len(last.stream) > 1
    /\ Cardinality(DOMAIN cGot) = 2
    /\ cPc = "fetching"
    /\ Remaining(cWant, cGot) # <<>>

\* the write-enabled checkouts whose token is the value of the lock
Holders ==
    {p \in Callers :
        /\ co[p].st = "writer"
        /\ wlock = repo_writer_lock_db_val_from_raw_val(co[p].uuid)}

C11_ForceReleaseFreesLock ==
    /\ [][\A p \in Callers :
            (wlock # repo_writer_lock_sentinal_db_val /\ checkout(p)) =>
                /\ co'[p].st = "failed"
                /\ wlock' = wlock]_vars
    /\ [][force_release_writer_lock =>
            /\ wlock' = encode("LOCK_AVAILABLE")
            /\ last'.stream = <<TRUE>>
            /\ \A p \in Callers :
                  acquire_writer_lock(wlock', Uuid(p, co[p].n + 1)).success]_vars
    /\ [][\A p \in Callers :
            (wlock = encode("LOCK_AVAILABLE") /\ checkout(p)) =>
                /\ co'[p].st = "writer"
                /\ p \in Holders']_vars

\* a writer that never closed no longer holds the lock, and another caller,
\* whose first attempt had failed, holds it: the lock was force-released
C11_Witness ==
    /\ co["p1"].st = "writer" /\ "p1" \notin Holders
    /\ co["p2"].st = "writer" /\ co["p2"].n = 2
    /\ "p2" \in Holders

----------------------------------------------------------------------------
(* Find-missing-commits                                                     *)

\* the commits recorded in the ref store that the parent records reach from
\* the commits in S
RECURSIVE ReachableCommits(_, _)
ReachableCommits(renv, S) ==
    LET recorded == {c \in S : commitParentKey(c) \in DOMAIN renv}
        parents == {renv[commitParentKey(c)] : c \in recorded} \ {""}
    IN  IF parents \subseteq S THEN recorded
        ELSE ReachableCommits(renv, S \cup parents)

\* the history of a branch: empty for a branch that does not exist
BranchHistory(renv, benv, b) ==
    IF b \in DOMAIN benv THEN ReachableCommits(renv, {benv[b]}) ELSE {}

\* every commit of the history of the branch is recorded down to a root
HistoryComplete(renv, benv, b) ==
    /\ b \in DOMAIN benv
    /\ commitParentKey(benv[b]) \in DOMAIN renv
    /\ \A c \in BranchHistory(renv, benv, b) :
          renv[commitParentKey(c)] \in {""} \cup BranchHistory(renv, benv, b)

\* C13: FetchFindMissingCommits(branch, client_commits) answers NOT_FOUND (5)
\* with no commits when the branch does not exist on the server; for a branch
\* with a recorded history it answers OK with the head of the branch on the
\* server and exactly the commits of that history that are not in
\* client_commits.
C13_FetchFindMissingCommits ==
    [][last'.op = "FetchFindMissingCommits" =>
          LET b == last'.req.branch
              c_commits == Range(last'.req.commits)
          IN  /\ b \notin DOMAIN branchenv =>
                    /\ ~last'.raised /\ last'.code = NOT_FOUND
                    /\ last'.stream[1].commits = {}
              /\ HistoryComplete(refenv, branchenv, b) =>
                    /\ ~last'.raised /\ last'.code = OK
                    /\ last'.stream[1].branch.commit = branchenv[b]
                    /\ last'.stream[1].commits =
                          BranchHistory(refenv, branchenv, b) \ c_commits
              /\ (b \in DOMAIN branchenv /\ ~last'.raised /\ last'.code = OK) =>
                    HistoryComplete(refenv, branchenv, b)
              /\ <<branchenv, refenv>>' = <<branchenv, refenv>>]_vars

C13_Witness ==
    /\ last.op = "FetchFindMissingCommits" /\ last.code = OK
    /\ last.req.commits = <<"c1">>
    /\ last.stream[1].commits = {"c2"}
    /\ last.stream[1].branch.commit = "c2"

\* C14: PushFindMissingCommits(branch, head, client_commits) answers OK with
\* exactly the commits of client_commits that are not recorded in the ref
\* store of the server, whatever branch they belong to, and echoes the branch
\* name and the head the client sent.
C14_PushFindMissingCommits ==
    [][last'.op = "PushFindMissingCommits" =>
          LET c_commits == Range(last'.req.commits)
          IN  /\ ~last'.raised /\ last'.code = OK
              /\ last'.stream[1].commits =
                    {c \in c_commits : commitRefKey(c) \notin DOMAIN refenv}
              /\ last'.stream[1].branch =
                    [name |-> last'.req.branch, commit |-> last'.req.head]
              /\ <<branchenv, refenv>>' = <<branchenv, refenv>>]_vars

\* a commit the server records outside the history of the named branch is
\* not reported missing
C14_Witness ==
    /\ last.op = "PushFindMissingCommits"
    /\ last.req.commits = <<"c2", "c1">>
    /\ last.req.branch \in DOMAIN branchenv
    /\ "c1" \in list_all_commits(refenv)
    /\ "c1" \notin BranchHistory(refenv, branchenv, last.req.branch)
    /\ last.stream[1].commits = {"c2"}

\* C14 as stated: the answer is the difference of client_commits against the
\* history of the named branch on the server.
C14_DifferenceAgainstBranchHistory ==
    [][last'.op = "PushFindMissingCommits" =>
          /\ last'.stream[1].commits =
                Range(last'.req.commits)
                    \ BranchHistory(refenv, branchenv, last'.req.branch)
          /\ last'.stream[1].branch =
                [name |-> last'.req.branch, commit |-> last'.req.head]]_vars

----------------------------------------------------------------------------
(* Find-missing-schemas                                                     *)

\* the schema digests of a recorded commit
SchemasAt(renv, commit) == RefRecords(renv[commitRefKey(commit)]).schemas

\* C15: FetchFindMissingSchemas(commit, listed) answers with exactly the
\* schema digests the server has at that commit that the client did not
\* list; PushFindMissingSchemas(commit, listed) answers with exactly the
\* listed digests that the server holds no schema record for.  No digest of
\* an answer is held by the side that is told it is missing.
C15_FindMissingSchemas ==
    [][/\ (last'.op = "FetchFindMissingSchemas" /\ ~last'.raised) =>
             LET listed == Range(last'.req.digests)
                 answer == last'.stream[1].hashs
             IN  /\ last'.code = OK
                 /\ last'.stream[1].commit = last'.req.commit
                 /\ answer = SchemasAt(refenv, last'.req.commit) \ listed
                 /\ answer \cap listed = {}
       /\ last'.op = "PushFindMissingSchemas" =>
             LET listed == Range(last'.req.digests)
                 answer == last'.stream[1].hashs
             IN  /\ ~last'.raised /\ last'.code = OK
                 /\ last'.stream[1].commit = last'.req.commit
                 /\ answer = {d \in listed : d \notin DOMAIN schemaenv}
                 /\ answer \cap DOMAIN schemaenv = {}
       /\ last'.op \in {"FetchFindMissingSchemas", "PushFindMissingSchemas"} =>
             <<refenv, schemaenv>>' = <<refenv, schemaenv>>]_vars

\* the push variant has answered with the one listed digest the server has no
\* record of, while the server holds a commit with both schemas
C15_Witness ==
    /\ last.op = "PushFindMissingSchemas"
    /\ last.req.digests = <<"s1", "s2">>
    /\ last.stream[1].hashs = {"s2"}
    /\ "s1" \in DOMAIN schemaenv
    /\ commitRefKey("c2") \in DOMAIN refenv
    /\ SchemasAt(refenv, "c2") \ {"s1"} = {"s2"}

----------------------------------------------------------------------------
(* Find-missing-hash-records                                                *)

\* the data digests of a recorded commit, each with the schema digest of the
\* dataset that holds it
DataAt(renv, commit) == RefRecords(renv[commitRefKey(commit)]).data

\* C16: FetchFindMissingHashRecords(commit, listed) answers with one
\* (digest, schema-digest) pair for exactly the data digests of the anchor
\* commit that the client did not list, each paired with the schema digest
\* of its dataset.  PushFindMissingHashRecords(commit, listed) answers with
\* exactly the listed digests that are not in the hash store of the server,
\* as bare digests: no schema digest, and the anchor commit is only echoed.
C16_FindMissingHashRecords ==
    [][/\ (last'.op = "FetchFindMissingHashRecords" /\ ~last'.raised) =>
             LET listed == Range(last'.req.digests)
                 data == DataAt(refenv, last'.req.commit)
             IN  /\ last'.code = OK
                 /\ last'.stream[1].hashs =
                       {<<d, data[d]>> : d \in DOMAIN data \ listed}
       /\ last'.op = "PushFindMissingHashRecords" =>
             LET listed == Range(last'.req.digests)
             IN  /\ ~last'.raised /\ last'.code = OK
                 /\ last'.stream[1].hashs =
                       {<<d>> : d \in listed \ DOMAIN hashenv}
       /\ last'.op \in {"FetchFindMissingHashRecords", "PushFindMissingHashRecords"} =>
             /\ last'.raised <=> commitRefKey(last'.req.commit) \notin DOMAIN refenv
                                   /\ last'.op = "FetchFindMissingHashRecords"
             /\ <<refenv, hashenv>>' = <<refenv, hashenv>>]_vars

\* the push variant has answered with the bare digest the server lacks
C16_Witness ==
    /\ last.op = "PushFindMissingHashRecords"
    /\ last.req.digests = <<"d0", "d1">>
    /\ "d0" \in DOMAIN hashenv
    /\ last.stream[1].hashs = {<<"d1">>}

\* C16 as stated: both RPCs answer with (digest, schema-digest) pairs.
C16_BothAnswerWithPairs ==
    [][(/\ last'.op \in {"FetchFindMissingHashRecords", "PushFindMissingHashRecords"}
        /\ ~last'.raised) =>
          \A item \in last'.stream[1].hashs :
             /\ Len(item) = 2
             /\ item[1] \in TensorDigests /\ item[2] \in SchemaDigests]_vars

----------------------------------------------------------------------------
(* Label and schema pushes                                                  *)

serverStores == <<branchenv, refenv, hashenv, schemaenv, labelenv, remoteData>>

\* C17: PushLabel recomputes the digest of the received value.  When it
\* differs from the declared digest the reply is DATA_LOSS (15) and the label
\* store is left as it was; when it matches, the label store holds the value
\* under the recomputed digest and every other record is untouched.
C17_PushLabelVerifiesDigest ==
    [][(last'.op = "PushLabel" /\ ~last'.raised) =>
          LET value == Tail(last'.req.blob)
              recomputed == blake2b(value[1])
          IN  IF recomputed # last'.req.digest
              THEN /\ last'.code = DATA_LOSS
                   /\ serverStores' = serverStores
              ELSE /\ last'.code \in {OK, ALREADY_EXISTS}
                   /\ recomputed \in DOMAIN labelenv'
                   /\ labelenv'[recomputed] = value
                   /\ \A d \in DOMAIN labelenv :
                         d \in DOMAIN labelenv' /\ labelenv'[d] = labelenv[d]
                   /\ DOMAIN labelenv' = DOMAIN labelenv \cup {recomputed}]_vars

\* a value pushed under a digest it does not hash to was refused by a server
\* that holds other labels and none under that digest
C17_Witness ==
    /\ last.op = "PushLabel" /\ last.code = DATA_LOSS
    /\ labelenv # <<>>
    /\ last.req.digest \notin DOMAIN labelenv

----------------------------------------------------------------------------
(* Commit records                                                           *)

CommitKeys(c) == {commitParentKey(c), commitRefKey(c), commitSpecKey(c)}

C20_PushCommitValidatesDigest ==
    [][last'.op = "PushCommit" =>
          /\ refenv' # refenv =>
                /\ ~last'.raised /\ last'.code = OK
                /\ \E c \in Commits :
                      /\ CommitKeys(c) \cap DOMAIN refenv = {}
                      /\ DOMAIN refenv' = DOMAIN refenv \cup CommitKeys(c)
                      /\ CommitHash(refenv'[commitParentKey(c)],
                                    refenv'[commitRefKey(c)],
                                    refenv'[commitSpecKey(c)]) = c
                      /\ \A k \in DOMAIN refenv : refenv'[k] = refenv[k]
          /\ (last'.raised \/ last'.code = ALREADY_EXISTS) => refenv' = refenv
          /\ (~last'.raised /\ last'.code = OK) => refenv' # refenv]_vars

\* a push whose content does not hash to the declared digest of a commit
\* the server does not record was refused, after another commit was written
C20_Witness ==
    /\ last.op = "PushCommit" /\ last.raised
    /\ commitRefKey("c1") \in DOMAIN refenv
    /\ commitRefKey("c2") \notin DOMAIN refenv

----------------------------------------------------------------------------
(* Push, then fetch                                                         *)

\* what a repository reaches from the head of its master: the commits, and
\* the schema, data and metadata digests of their records that it holds
ReachCommits(r) == ReachableCommits(r.refenv, {HeadOf(r)})
ReachRecords(r, c) == RefRecords(r.refenv[commitRefKey(c)])
ReachSchemas(r) ==
    {x \in DOMAIN r.schemaenv : \E c \in ReachCommits(r) : x \in ReachRecords(r, c).schemas}
ReachData(r) ==
    {d \in DOMAIN r.hashenv : \E c \in ReachCommits(r) : d \in DOMAIN ReachRecords(r, c).data}
ReachLabels(r) ==
    {d \in DOMAIN r.labelenv : \E c \in ReachCommits(r) : d \in ReachRecords(r, c).labels}

\* every digest the reachable commits of a repository refer to is held
HoldsAll(r) ==
    \A c \in ReachCommits(r) :
       /\ ReachRecords(r, c).schemas \subseteq DOMAIN r.schemaenv
       /\ DOMAIN ReachRecords(r, c).data \subseteq DOMAIN r.hashenv
       /\ ReachRecords(r, c).labels \subseteq DOMAIN r.labelenv

\* C12: when repository "A" has pushed master (the missing commits with
\* their schemas, data and labels, then the branch record) and repository
\* "B" has fetched master from that server, with no commit made in between,
\* the fetch has not failed and both repositories have the same head of
\* master and the same reachable commits, schema digests, data digests and
\* metadata digests, all of them held.
C12_PushThenFetchAgree ==
    sync["B"].clean =>
       /\ sync["B"].pc # "failed"
       /\ sync["B"].pc = "done" =>
             /\ HeadOf(repo["B"]) = HeadOf(repo["A"])
             /\ HeadOf(repo["B"]) # ""
             /\ ReachCommits(repo["B"]) = ReachCommits(repo["A"])
             /\ \A c \in ReachCommits(repo["B"]) :
                   \A k \in CommitKeys(c) : repo["B"].refenv[k] = repo["A"].refenv[k]
             /\ ReachSchemas(repo["B"]) = ReachSchemas(repo["A"])
             /\ ReachData(repo["B"]) = ReachData(repo["A"])
             /\ ReachLabels(repo["B"]) = ReachLabels(repo["A"])
             /\ HoldsAll(repo["B"])

\* a fetch of the pushed master has ended in a repository that now holds
\* both commits with both tensors and both labels
C12_Witness ==
    /\ sync["B"].clean /\ sync["B"].pc = "done"
    /\ HeadOf(repo["B"]) = "c2"
    /\ ReachCommits(repo["B"]) = {"c1", "c2"}
    /\ ReachData(repo["B"]) = {"d0", "d1"}
    /\ ReachLabels(repo["B"]) = {"d0", "d1"}
    /\ ReachSchemas(repo["B"]) = {"s1", "s2"}

----------------------------------------------------------------------------
(* Reader transactions of cancelled calls                                   *)

\* C21: after a FetchData call has ended, by its own end or by the client's
\* cancellation at any reply of the stream, as many reader transactions are
\* open on the hash store as before the call.
C21_CancelReleasesReader ==
    [][last'.op = "FetchData" => readers' = readers]_vars


----------------------------------------------------------------------------
(* Writes of concurrent handlers                                            *)

\* C22: a handler changes the branch store only while the writer lock is
\* held, and while one handler is between its reads and its write no other
\* handler writes.
C22_WritesUnderWriterLock ==
    [][/\ branchenv' # branchenv => wlock # repo_writer_lock_sentinal_db_val
       /\ \A t \in Workers :
             calls[t].pc = "read" /\ calls'[t].pc = "read" => branchenv' = branchenv]_vars

----------------------------------------------------------------------------
(* Branch heads move forward                                                *)

\* C23: a branch head is never rewound: when an operation changes the head
\* of an existing branch from commit A to commit B (both recorded), A is an
\* ancestor of B in the commit graph.
C23_HeadNeverRewound ==
    [][\A b \in DOMAIN branchenv :
          (/\ b \in DOMAIN branchenv'
           /\ branchenv'[b] # branchenv[b]
           /\ commitParentKey(branchenv[b]) \in DOMAIN refenv
           /\ commitParentKey(branchenv'[b]) \in DOMAIN refenv)
          => branchenv[b] \in ReachableCommits(refenv', {branchenv'[b]})]_vars

----------------------------------------------------------------------------
(* Round trips of the key codec                                             *)

\* C24: for every record class of the key codec, decoding the key or the
\* value that encoding x produced returns x; for the dataset record key for
\* every pair (dataset name, sample name).
C24_DecodeInvertsEncode ==
    codec.class # "none" => codec.raised = "" /\ codec.back = codec.raw

\* C25: the commit-parent value has three shapes: a root commit (empty
\* parent), one parent, and a merge of two parents joined by " << ".
\* Decoding an encoded value gives is_merge_commit exactly when it was
\* encoded as a merge, with master_ancestor and dev_ancestor the encoded
\* parents, and an empty dev_ancestor otherwise.
C25_CommitParentShapes ==
    (codec.class = "commit_parent" /\ codec.part = "val") =>
        /\ decode(codec.db) =
              IF codec.raw.is_merge_commit
              THEN codec.raw.master_ancestor \o <<" ", "<", "<", " ">>
                       \o codec.raw.dev_ancestor
              ELSE codec.raw.master_ancestor
        /\ codec.back.is_merge_commit = codec.raw.is_merge_commit
        /\ codec.back.master_ancestor = codec.raw.master_ancestor
        /\ codec.back.dev_ancestor =
              IF codec.raw.is_merge_commit THEN codec.raw.dev_ancestor ELSE <<>>

C25_Witness ==
    /\ codec.class = "commit_parent" /\ codec.part = "val"
    /\ codec.raw.is_merge_commit
    /\ codec.raw.master_ancestor # codec.raw.dev_ancestor
    /\ codec.back.is_merge_commit
    /\ codec.back.dev_ancestor = codec.raw.dev_ancestor

\* the order of bytes objects, on the characters of the record keys
RECURSIVE BytesLeq(_, _)
BytesLeq(x, y) ==
    LET rank(ch) == IF ch = "a" THEN 1 ELSE 2
    IN  IF x = <<>> THEN TRUE
        ELSE IF y = <<>> THEN FALSE
        ELSE IF Head(x) # Head(y) THEN rank(Head(x)) < rank(Head(y))
        ELSE BytesLeq(Tail(x), Tail(y))

SortedByKey(pairs) ==
    \A i, j \in 1..Len(pairs) :
        i < j => BytesLeq(decode(pairs[i][1]), decode(pairs[j][1]))

\* C26: decoding a commit ref value the encoder produced returns the same
\* (key, value) pairs in the order they were given: no pair is added,
\* dropped or reordered, and a list sorted by key decodes to a list sorted
\* by key.
C26_CommitRefKeepsPairs ==
    (codec.class = "commit_ref" /\ codec.part = "val") =>
        /\ Len(codec.back) = Len(codec.raw)
        /\ \A i \in 1..Len(codec.raw) : codec.back[i] = codec.raw[i]
        /\ SortedByKey(codec.raw) => SortedByKey(codec.back)

C26_Witness ==
    /\ codec.class = "commit_ref" /\ codec.part = "val"
    /\ Len(codec.raw) = 3
    /\ SortedByKey(codec.raw)
    /\ codec.raw[1][1] # codec.raw[2][1]
    /\ codec.raw[2][1] # codec.raw[3][1]
    /\ codec.back = codec.raw

----------------------------------------------------------------------------
(* Branch names                                                             *)

\* the character class [A-Za-z0-9._-] among the characters given
OfNameClass(ch) == ch \in {"a", "-"}

\* C27: Repository.create_branch with a name that does not match
\* [A-Za-z0-9._-]+ fails with an error and leaves the branch store as it
\* was; with a valid name that is not yet used (in an initialized
\* repository) it creates exactly that one branch, at the base commit.
C27_CreateBranchChecksName ==
    [][local'.outcome.op = "create_branch" =>
        LET name == local'.outcome.branch_name
            valid == name # <<>> /\ \A i \in 1..Len(name) : OfNameClass(name[i])
        IN  /\ ~valid => /\ local'.outcome.raised # ""
                         /\ local'.branchenv = local.branchenv
            /\ (valid /\ local.repo_is_initialized /\ name \notin DOMAIN local.branchenv)
                  => /\ local'.outcome.raised = ""
                     /\ DOMAIN local'.branchenv = DOMAIN local.branchenv \cup {name}
                     /\ local'.branchenv[name] = local'.outcome.base_commit
                     /\ \A b \in DOMAIN local.branchenv :
                           local'.branchenv[b] = local.branchenv[b]]_vars

C27_Witness ==
    /\ local.outcome.op = "create_branch"
    /\ local.outcome.branch_name = <<"a", ":">>
    /\ local.outcome.raised = "ValueError"
    /\ DOMAIN local.branchenv = {<<"a">>}

----------------------------------------------------------------------------
(* Generated sample names                                                   *)

RECURSIVE StrLess(_, _)
\* x < y for strings of decimal digits: by the first character that
\* differs, a proper prefix before its extensions
StrLess(x, y) ==
    IF y = <<>> THEN FALSE
    ELSE IF x = <<>> THEN TRUE
    ELSE IF Head(x) # Head(y) THEN int_of_str(<<Head(x)>>) < int_of_str(<<Head(y)>>)
    ELSE StrLess(Tail(x), Tail(y))

\* C28: any two sample names generated within one process are distinct,
\* for more calls than the cycle has entries and any clock readings that
\* do not decrease.
C28_NamesDistinct ==
    \A i, j \in 1..Len(sampler.names) :
        i # j => sampler.names[i] # sampler.names[j]

C28_Witness ==
    /\ Len(sampler.names) > CycleLen
    /\ LET first == sampler.names[1]
           again == sampler.names[1 + CycleLen]
           w == Len(cycle_list[1])
       IN  /\ SubSeq(first, Len(first) - w + 1, Len(first)) = cycle_list[1]
           /\ SubSeq(again, Len(again) - w + 1, Len(again)) = cycle_list[1]
           /\ Len(first) = Len(again)
           /\ first # again

\* C29: sample names sort in the order they were generated: a name compares
\* greater, as a string, than every name generated before it.
C29_NamesSortInGenerationOrder ==
    \A i, j \in 1..Len(sampler.names) :
        i < j => StrLess(sampler.names[i], sampler.names[j])

\* C30: on a server-side push the staged payloads are moved to the permanent
\* store only after the commit record has been written: a payload leaves the
\* staging directory only in a PushCommit that replies OK and has newly
\* written the three records of a commit that was not recorded before; a
\* PushCommit that raises before or in the write, or finds the commit
\* recorded, moves nothing.
C30_MoveOnlyAfterNewCommit ==
    [][(\E d \in remoteData : d \notin remoteData') =>
          /\ last'.op = "PushCommit"
          /\ ~last'.raised /\ last'.code = OK
          /\ \E c \in Commits :
                /\ commitRefKey(c) \notin DOMAIN refenv
                /\ {commitParentKey(c), commitRefKey(c), commitSpecKey(c)}
                      \subseteq DOMAIN refenv']_vars

\* payloads were staged and the push of a new commit has moved them
C30_Witness ==
    /\ last.op = "PushCommit" /\ last.code = OK /\ ~last.raised
    /\ hashenv # <<>>
    /\ remoteData = {}
    /\ Cardinality(DOMAIN refenv) = 3

----------------------------------------------------------------------------
(* Decoding what cannot be decoded                                          *)

\* the number of separators in a string
RECURSIVE CountSep(_)
CountSep(str) ==
    IF str = <<>> THEN 0
    ELSE (IF Head(str) = ":" THEN 1 ELSE 0) + CountSep(Tail(str))

\* C31: a decode function given a value that cannot be decoded to its
\* declared shape fails with an error instead of returning a value: a branch
\* head value that is absent or not a byte string, and a dataset record key
\* that, after its prefix, does not hold exactly one separator between the
\* dataset name and the sample name.
C31_MalformedDecodeFails ==
    /\ (codec.class = "branch_head" /\ codec.part = "db_val"
           /\ codec.db[1] # "bytes") => codec.raised # ""
    /\ (codec.class = "data_record" /\ codec.part = "db_key"
           /\ CountSep(replace_once(decode(codec.db), <<"a", ":">>)) # 1)
          => codec.raised # ""

----------------------------------------------------------------------------
(* A repository that is not initialized                                     *)

\* the calls that verify the repository first
VerifiedCalls ==
    {"checkout", "log", "summary", "merge", "create_branch", "list_branches",
     "force_release_writer_lock", "writer_lock_held"}

\* C32: on a repository that has not been initialized each of checkout, log,
\* summary, merge, create_branch, list_branches, force_release_writer_lock
\* and writer_lock_held raises RuntimeError before it reads or changes
\* anything of the repository; after init none of them fails for that reason.
C32_UninitializedRaises ==
    [][local'.outcome.op \in VerifiedCalls =>
          /\ ~local.repo_is_initialized =>
                /\ local'.outcome.raised = "RuntimeError"
                /\ ~local'.accessed
                /\ local'.branchenv = local.branchenv
                /\ local'.lock_free = local.lock_free
                /\ ~local'.repo_is_initialized
          /\ local.repo_is_initialized => local'.outcome.raised # "RuntimeError"]_vars

\* a call was refused before init and the same call went through after it
C32_Witness ==
    /\ local.repo_is_initialized
    /\ local.outcome.op = "checkout" /\ local.outcome.raised = ""
    /\ ~local.lock_free
    /\ local.accessed

----------------------------------------------------------------------------
(* Progress of the fetching client                                          *)

\* C33: a FetchData reply stream that carries the RESOURCE_EXHAUSTED marker
\* delivers at least one of the tensors asked for before the marker, also
\* when that one tensor alone is larger than fetch_max_nbytes; so after every
\* round that ends with the marker the client misses fewer digests than
\* before, and the retry loop comes to an end.
C33_EveryRoundDelivers ==
    /\ [][(ClientFetchRound /\ Markers(last'.stream) # {}) =>
            LET asked == Remaining(cWant, cGot)
                m == CHOOSE i \in Markers(last'.stream) :
                        \A j \in Markers(last'.stream) : i <= j
                sent == RecievedTensors(SubSeq(last'.stream, 1, m - 1))
            IN  /\ Len(sent) >= 1
                /\ sent[1].digest = asked[1]
                /\ sent[1].data = hashenv[asked[1]].data
                /\ Len(Remaining(cWant, cGot')) < Len(asked)]_vars
    /\ (cPc = "fetching") ~> (cPc \in {"done", "failed"})

\* a round whose first tensor alone is larger than the budget delivered that
\* tensor, and only that one, before the marker
C33_Witness ==
    /\ last.op = "FetchData" /\ last.code = RESOURCE_EXHAUSTED
    /\ cPc = "fetching"
    /\ DOMAIN cGot = {"d2"}
    /\ Len(PackTensor("d2", cGot["d2"])) > FetchMaxNBytes
    /\ Cardinality(Range(cWant)) > 1

----------------------------------------------------------------------------
(* FetchData for a digest the server does not hold                          *)

\* the place of the first digest that is not in the hash store
FirstAbsent(henv, digests) ==
    CHOOSE k \in 1..Len(digests) :
        /\ digests[k] \notin DOMAIN henv
        /\ \A j \in 1..(k - 1) : digests[j] \in DOMAIN henv

\* the tensors before the first absent digest stay under the budget
AbsentWithinBudget(henv, digests) ==
    \A j \in 1..(FirstAbsent(henv, digests) - 1) :
        PackedSize(henv, SubSeq(digests, 1, j)) < FetchMaxNBytes

\* C34 as stated: if any digest asked for in a FetchData call is absent from
\* the hash store, the reply stream is a single NOT_FOUND reply and carries
\* no tensor data, wherever in the request the absent digest stands.
C34_AnyAbsentDigestIsNotFound ==
    [][\A digests \in Wants :
          (/\ last'.op = "FetchData" /\ last'.req = NoRequest
           /\ ~AllPresent(hashenv, digests)
           /\ FetchData(digests))
             => last'.stream = <<Frame(NOT_FOUND, <<>>)>>]_vars

\* C34, amended: if a digest asked for is absent and the tensors of the
\* digests before it pack to less than fetch_max_nbytes, the reply stream is
\* a single NOT_FOUND reply without tensor data, although the digests before
\* the absent one were read and packed; if the budget is reached before the
\* absent digest, the stream is the packed tensors and the
\* RESOURCE_EXHAUSTED marker, and no NOT_FOUND reply.
C34_AbsentDigestWithinBudgetIsNotFound ==
    [][\A digests \in Wants :
          (/\ last'.op = "FetchData" /\ last'.req = NoRequest
           /\ ~AllPresent(hashenv, digests)
           /\ FetchData(digests))
             => IF AbsentWithinBudget(hashenv, digests)
                THEN /\ last'.stream = <<Frame(NOT_FOUND, <<>>)>>
                     /\ last'.code = NOT_FOUND
                     /\ RecievedTensors(last'.stream) = <<>>
                ELSE /\ last'.code = RESOURCE_EXHAUSTED
                     /\ \A i \in 1..Len(last'.stream) :
                           last'.stream[i].code # NOT_FOUND
                     /\ RecievedTensors(last'.stream) # <<>>]_vars

\* a call was answered NOT_FOUND alone while the server held tensors that a
\* request may name before an absent digest
C34_Witness ==
    /\ last.op = "FetchData" /\ last.code = NOT_FOUND /\ ~last.raised
    /\ Len(last.stream) = 1
    /\ last.req = NoRequest
    /\ hashenv # <<>>
    /\ DOMAIN hashenv # TensorDigests

----------------------------------------------------------------------------
(* The schema a pushed tensor is stored under                               *)

\* C35: every tensor that one PushData call stores is stored under the
\* schema digest that came with that tensor in the batch, also when the
\* batch holds tensors of different schemas.
C35_StoredUnderOwnSchema ==
    [][(last'.op = "PushData" /\ last'.code = OK /\ ~last'.raised) =>
          \A i \in 1..Len(last'.req.batch) :
             LET t == last'.req.batch[i]
             IN  (/\ t.digest \notin DOMAIN hashenv
                  /\ \A j \in 1..(i - 1) : last'.req.batch[j].digest # t.digest)
                    => /\ t.digest \in DOMAIN hashenv'
                       /\ hashenv'[t.digest].schema = t.schema]_vars

----------------------------------------------------------------------------
(* The RPCs that read                                                       *)

ReadRPCs ==
    {"FetchBranchRecord", "FetchCommit", "FetchSchema", "FetchData", "FetchLabel",
     "FetchFindMissingCommits", "PushFindMissingCommits",
     "FetchFindMissingSchemas", "PushFindMissingSchemas",
     "FetchFindMissingHashRecords", "PushFindMissingHashRecords",
     "FetchFindMissingLabels", "PushFindMissingLabels"}

\* C36: the RPCs that read (FetchBranchRecord, FetchCommit, FetchSchema,
\* FetchData, FetchLabel and the find-missing calls of both directions) leave
\* the branch, ref, hash and label stores of the server, and its staged
\* payloads, as they were, whatever they are asked and whether they answer
\* with data, with an error code or end with an exception.
C36_ReadsLeaveStores ==
    [][last'.op \in ReadRPCs =>
          <<branchenv, refenv, hashenv, schemaenv, labelenv, remoteData>>'
             = <<branchenv, refenv, hashenv, schemaenv, labelenv, remoteData>>]_vars

\* a read was answered with an error by a server whose stores hold records
C36_Witness ==
    /\ last.op \in ReadRPCs
    /\ last.code = NOT_FOUND
    /\ branchenv # <<>> /\ refenv # <<>> /\ hashenv # <<>> /\ labelenv # <<>>

----------------------------------------------------------------------------
(* Two calls that create the same branch                                    *)

\* C37: a PushBranchRecord call that found its branch absent completes with
\* a reply, OK or ALREADY_EXISTS, and never with an error that leaves the
\* handler, also when another call created the branch between its existence
\* check and its create; the branch then exists.
C37_ConcurrentCreateReplies ==
    [][\A t \in Workers :
          (calls[t].pc = "read" /\ ~calls[t].exists /\ calls'[t].pc = "idle")
              => /\ ~last'.raised
                 /\ last'.code \in {OK, ALREADY_EXISTS}
                 /\ calls[t].name \in get_branch_names(branchenv')]_vars

----------------------------------------------------------------------------
(* Clone                                                                    *)

\* C38: after Repository.clone returns, the local 'master' head is the head
\* of the branch fetched from origin, the staging area is empty and the
\* writer lock is free; a clone run where a repository exists, with
\* remove_old false, fails and changes nothing of the repository.
C38_CloneLeavesCleanMaster ==
    [][(local' # local /\ local'.outcome.op = "clone") =>
          /\ local'.outcome.raised = "" =>
                /\ "master" \in get_branch_names(branchenv)
                /\ master \in get_branch_names(local'.branchenv)
                /\ get_branch_head_commit(local'.branchenv, master)
                      = get_branch_head_commit(branchenv, "master")
                /\ local'.stageenv = {}
                /\ local'.lock_free
          /\ (local.repo_is_initialized /\ ~local'.outcome.remove_old) =>
                /\ local'.outcome.raised # ""
                /\ local'.repo_is_initialized
                /\ local'.branchenv = local.branchenv
                /\ local'.stageenv = local.stageenv
                /\ local'.lock_free = local.lock_free]_vars

\* a clone with remove_old has replaced a repository and returned, with the
\* head of origin's master at the local master
C38_Witness ==
    /\ local.outcome.op = "clone"
    /\ local.outcome.raised = ""
    /\ local.outcome.remove_old
    /\ "master" \in get_branch_names(branchenv)
    /\ get_branch_head_commit(local.branchenv, master) = "c2"
    /\ DOMAIN local.branchenv # {master}

----------------------------------------------------------------------------
(* Replies of FetchCommit                                                   *)

\* C39: FetchCommit of a commit that the ref store does not hold yields one
\* reply, NOT_FOUND, without record data; for a stored commit the ref slices
\* of the replies, joined in order, are the stored compressed ref bytes,
\* total_byte_size of every reply is their length, and every reply carries
\* the stored parent and spec values.
C39_FetchCommitReplies ==
    [][last'.op = "FetchCommit" =>
          LET commit == last'.req.commit
              stream == last'.stream
          IN  IF commitRefKey(commit) \notin DOMAIN refenv'
              THEN /\ last'.code = NOT_FOUND
                   /\ Len(stream) = 1
                   /\ stream[1].code = NOT_FOUND
                   /\ DOMAIN stream[1] \cap {"parent", "spec", "ref"} = {}
              ELSE /\ last'.code = OK
                   /\ Concat([i \in 1..Len(stream) |-> stream[i].ref])
                         = refenv'[commitRefKey(commit)]
                   /\ \A i \in 1..Len(stream) :
                         /\ stream[i].total_byte_size = Len(refenv'[commitRefKey(commit)])
                         /\ stream[i].parent = refenv'[commitParentKey(commit)]
                         /\ stream[i].spec = refenv'[commitSpecKey(commit)]]_vars

\* a stored commit was fetched in more than one reply
C39_Witness ==
    /\ last.op = "FetchCommit"
    /\ last.code = OK
    /\ Len(last.stream) > 1
    /\ commitRefKey(last.req.commit) \in DOMAIN refenv

----------------------------------------------------------------------------
(* Record keys of one store                                                 *)

\* C40: for dataset, sample and metadata names of the class [A-Za-z0-9._-]+,
\* distinct (dataset, sample) pairs get distinct dataset record keys, and no
\* dataset record key equals a dataset count key, the total dataset count
\* key, a dataset schema key or a metadata key.
C40_RecordKeysInjective ==
    (/\ codec.class = "key_pair"
     /\ \A i \in 1..2 : is_suitable_user_key(codec.raw[i])
     /\ \A i \in 1..Len(codec.back) : is_suitable_user_key(codec.back[i]))
        => /\ codec.part = "data_record" => (codec.db = codec.other <=> codec.raw = codec.back)
           /\ codec.part # "data_record" => codec.db # codec.other

\* the record key of a sample of dataset 'a' beside the count key of a
\* dataset whose name begins with 'a'
C40_Witness ==
    /\ codec.class = "key_pair"
    /\ codec.part = "dataset_record_count"
    /\ codec.raw = <<<<"a">>, <<"a">>>>
    /\ codec.back = <<<<"a", "a">>>>
    /\ codec.db # codec.other

=============================================================================
